---- MODULE Spec2Model ----
(***************************************************************************)
(* NeuroCursor: the signal-to-intent decision pipeline.                    *)
(*                                                                         *)
(*   eeg_cursor_control.py  threshold / classifier prediction, the         *)
(*                          majority-vote debouncer and the control loop   *)
(*   train_data_collect.py  baseline calibration and sample collection     *)
(*   effort_based_control.py  EMA smoothing, proportional drive, fail-safe *)
(*   eeg_model_trainer.py   rolling-mean smoothing and derived features    *)
(*                                                                         *)
(* Every program keeps the latest sample in the module-level dict          *)
(* current_data, written by the WebSocket thread (on_message) and read by  *)
(* the loops.  The programs are separate processes: each specification     *)
(* below runs one of them and leaves the state of the others untouched.    *)
(***************************************************************************)
EXTENDS Integers, Sequences, FiniteSets, TLC

VARIABLES
    current_data,        \* latest-sample slot: channel -> value
    ws_connected,        \* set by on_open, cleared by on_close
    control_active,      \* eeg_cursor_control: the loop's run flag
    control_mode,        \* "Threshold" or "ML Model"
    loaded_model,        \* the unpickled model package (or none)
    prediction_buffer,   \* deque(maxlen = SMOOTHING_WINDOW) of labels
    start_enabled,       \* state of the Start button (Stop is its negation)
    loop_pc,             \* control_loop thread -> "none" | "while" | "act"
    direction,           \* control_loop thread -> its local `direction`
    sink,                \* pyautogui: pointer in a corner, last command done
    ticks_since_sample,  \* control-loop ticks since on_message last ran
    call,                \* one application of a prediction function
    baseline_data,       \* train_data_collect: channel -> reference value
    calib_pc,            \* position of the _run_calibration thread
    temp_data,           \* its accumulator of copied samples
    polls,               \* iterations of its polling loop so far
    calib_k,             \* index of the next key its averaging loop writes
    calib_report,        \* the message box it asked for
    baseline_before,     \* baseline_data when the run started
    is_training,         \* a training_loop thread is collecting
    session_direction,   \* the direction that thread is collecting for
    training_data,       \* samples collected in this session
    is_paused,           \* the pause flag of the training session
    train_pc,            \* position of the training_loop thread
    trial,               \* the iteration of its for loop
    avg_att,             \* effort_based_control: EMA of attention
    avg_med,             \* EMA of meditation
    baseline_att,        \* the operator's attention baseline
    active,              \* EffortControlApp.active
    fail_safe_paused,    \* set when pyautogui raised FailSafeException
    s_left,              \* the left sensitivity slider
    s_right,             \* the right sensitivity slider
    pointer,             \* where the mouse pointer is: corner, edge, inside
    last_tick,           \* what the latest update_loop tick read and did
    ticks,               \* update_loop ticks that polled a sample
    df,                  \* eeg_model_trainer: run -> rows of the dataframe
    smoothed,            \* run -> the smoothed attention values, per tick
    input_dict,          \* model_predict: the features of the latest tick
    feature_values,      \* model_predict: the vector for the scaler
    data_lock,           \* who holds data_lock: "free", "reader", "calib"
    reader,              \* a decision tick reading the slot key by key
    stream,              \* main.py: the bytes the ESP32 sends in all
    received,            \* how many of them recv has returned so far
    buffer,              \* the characters not yet framed into a line
    handed               \* the readings given to process_brainwave_data

sharedVars == <<current_data, ws_connected>>
cursorVars == <<control_active, control_mode, loaded_model, prediction_buffer,
                start_enabled, loop_pc, direction, sink, ticks_since_sample>>
calibVars  == <<baseline_data, calib_pc, temp_data, polls, calib_k,
                calib_report, baseline_before>>
trainVars  == <<is_training, session_direction, training_data, is_paused,
                train_pc, trial>>
effortVars == <<avg_att, avg_med, baseline_att, active, fail_safe_paused,
                s_left, s_right, pointer, last_tick, ticks>>
featureVars == <<df, smoothed, input_dict, feature_values>>
lockVars   == <<data_lock, reader>>
mainVars   == <<stream, received, buffer, handed>>
restVars   == <<effortVars, featureVars, lockVars, mainVars>>
vars == <<sharedVars, cursorVars, call, calibVars, trainVars, restVars>>

-----------------------------------------------------------------------------
(* The latest-sample slot                                                  *)

Keys == {"sig", "att", "med", "raw", "delta", "theta",
         "la", "ha", "lb", "hb", "lg", "mg"}

\* current_data as the module sets it at import
InitialData == [k \in Keys |-> IF k = "sig" THEN 200 ELSE 0]

\* dict.update writing 0 into the keys the message lacks
DictUpdate_resets_absent(d, msg) ==
    [k \in DOMAIN d \cup DOMAIN msg |->
        IF k \in DOMAIN msg THEN msg[k] ELSE 0]

\* dict.update: the keys of the message are overwritten or added, the others
\* kept
DictUpdate(d, msg) ==
    [k \in DOMAIN d \cup DOMAIN msg |->
        IF k \in DOMAIN msg THEN msg[k] ELSE d[k]]

\* A WebSocket text frame by what json.loads makes of it: json = "object"
\* (a mapping, in data), "number" (valid JSON that dict.update rejects with
\* TypeError) or "none" (json.loads raises).  on_message catches every
\* exception and passes.
Frame(json, data) == [json |-> json, data |-> data]

Ingest(d, frame) ==
    IF frame.json = "object" THEN DictUpdate(d, frame.data) ELSE d

Reading(sig, att, med, la, ha, lb, hb) ==
    [InitialData EXCEPT !["sig"] = sig, !["att"] = att, !["med"] = med,
                        !["la"] = la, !["ha"] = ha, !["lb"] = lb, !["hb"] = hb]

-----------------------------------------------------------------------------
(* eeg_cursor_control.py: the two prediction functions                     *)

Labels == {"LEFT", "RIGHT", "UP", "DOWN", "CLICK", "IDLE"}

\* threshold_predict with the alpha rules tried before the beta rules
threshold_predict_alpha_first(d) ==
    LET la == d["la"]
        ha == d["ha"]
        lb == d["lb"]
        hb == d["hb"]
    IN  IF la > ha + 3000 THEN "UP"
        ELSE IF ha > la + 3000 THEN "DOWN"
        ELSE IF lb > hb + 5000 THEN "LEFT"
        ELSE IF hb > lb + 5000 THEN "RIGHT"
        ELSE "IDLE"

\* threshold_predict reads la, ha, lb, hb under data_lock and applies the
\* band-dominance rules in order
threshold_predict(d) ==
    LET la == d["la"]
        ha == d["ha"]
        lb == d["lb"]
        hb == d["hb"]
    IN  IF lb > hb + 5000 THEN "LEFT"
        ELSE IF hb > lb + 5000 THEN "RIGHT"
        ELSE IF la > ha + 3000 THEN "UP"
        ELSE IF ha > la + 3000 THEN "DOWN"
        ELSE "IDLE"

\* names model_predict can look up in input_dict: base_data and
\* derived_features
BaseFeatureNames == {"attention", "meditation", "theta", "low_alpha",
                     "high_alpha", "low_beta", "high_beta"}
DerivedFeatureNames == {"alpha_theta_ratio", "beta_alpha_ratio",
                        "beta_theta_ratio", "engagement_ratio"}
InputDictNames == BaseFeatureNames \cup DerivedFeatureNames

\* the trainer's all_features, stored as the package's feature_names
all_features == <<"attention", "meditation", "theta", "low_alpha",
                  "high_alpha", "low_beta", "high_beta",
                  "alpha_theta_ratio", "beta_alpha_ratio",
                  "beta_theta_ratio", "engagement_ratio">>

\* model.classes_: scikit-learn keeps the labels sorted
classes_ == <<"CLICK", "DOWN", "IDLE", "LEFT", "RIGHT", "UP">>

\* what pickle.load may have produced
NoModel        == [kind |-> "none", feature_names |-> <<>>, has_proba |-> FALSE]
BareModel      == [kind |-> "object", feature_names |-> <<>>, has_proba |-> TRUE]
GoodPackage    == [kind |-> "dict", feature_names |-> all_features,
                   has_proba |-> TRUE]
SkewedPackage  == [kind |-> "dict",
                   feature_names |-> <<"attention", "delta", "theta">>,
                   has_proba |-> TRUE]
ReorderedPackage == [kind |-> "dict",
                     feature_names |-> <<"engagement_ratio", "theta",
                                         "beta_alpha_ratio", "attention">>,
                     has_proba |-> TRUE]
NoProbaPackage == [kind |-> "dict", feature_names |-> all_features,
                   has_proba |-> FALSE]
ModelPackages  == {NoModel, BareModel, GoodPackage, SkewedPackage,
                   NoProbaPackage}

\* the confidence floor 0.55, in percent
CONFIDENCE_FLOOR == 55

\* np.max
RECURSIVE SeqMax(_)
SeqMax(s) ==
    IF Len(s) = 1 THEN s[1]
    ELSE LET m == SeqMax(Tail(s)) IN IF s[1] >= m THEN s[1] ELSE m

\* np.argmax: the first index holding the maximum
ArgMax(s) == CHOOSE i \in 1..Len(s) :
                 /\ s[i] = SeqMax(s)
                 /\ \A j \in 1..(i - 1) : s[j] # s[i]

\* model_predict handing the classifier a vector although a feature name
\* has no entry in input_dict
model_predict_ignores_missing(model, d, answer) ==
    IF model.kind # "dict" THEN "IDLE"
    ELSE IF answer.raises THEN "IDLE"
    ELSE IF model.has_proba
         THEN IF SeqMax(answer.probs) < CONFIDENCE_FLOOR
              THEN "IDLE"
              ELSE classes_[ArgMax(answer.probs)]
    ELSE answer.label

\* model_predict rejecting a probability equal to the floor
\* a predictor that asks the classifier without looking at what is loaded
model_predict_trusts_model(model, d, answer) ==
    IF \E i \in 1..Len(model.feature_names) :
           model.feature_names[i] \notin InputDictNames
    THEN "IDLE"
    ELSE IF answer.raises THEN "IDLE"
    ELSE IF model.has_proba
         THEN IF SeqMax(answer.probs) < CONFIDENCE_FLOOR
              THEN "IDLE"
              ELSE classes_[ArgMax(answer.probs)]
    ELSE answer.label

model_predict_floor_excluded(model, d, answer) ==
    IF model.kind # "dict" THEN "IDLE"
    ELSE IF \E i \in 1..Len(model.feature_names) :
                model.feature_names[i] \notin InputDictNames
         THEN "IDLE"
    ELSE IF answer.raises THEN "IDLE"
    ELSE IF model.has_proba
         THEN IF SeqMax(answer.probs) <= CONFIDENCE_FLOOR
              THEN "IDLE"
              ELSE classes_[ArgMax(answer.probs)]
    ELSE answer.label

\* The classifier is an external capability: `answer` is what scaler and
\* model return for this input: raises = an exception in transform or
\* predict, probs = predict_proba(...)[0] in percent, one entry per class,
\* label = predict(...)[0].
model_predict(model, d, answer) ==
    IF model.kind = "none" THEN "IDLE"
    ELSE IF model.kind # "dict" THEN "IDLE"
    ELSE IF \E i \in 1..Len(model.feature_names) :
                model.feature_names[i] \notin InputDictNames
         THEN "IDLE"                                   \* KeyError
    ELSE IF answer.raises THEN "IDLE"
    ELSE IF model.has_proba
         THEN IF SeqMax(answer.probs) < CONFIDENCE_FLOOR
              THEN "IDLE"
              ELSE classes_[ArgMax(answer.probs)]
    ELSE answer.label

Answer(raises, probs, label) ==
    [raises |-> raises, probs |-> probs, label |-> label]

\* classifier answers: confident, exactly at the floor, just below it,
\* an arg-max of IDLE, a low tie, and a failure
ClassifierAnswers ==
    { Answer(FALSE, <<90, 2, 2, 2, 2, 2>>, "CLICK"),
      Answer(FALSE, <<10, 10, 10, 60, 5, 5>>, "LEFT"),
      Answer(FALSE, <<5, 5, 10, 20, 55, 5>>, "RIGHT"),
      Answer(FALSE, <<5, 5, 10, 20, 54, 6>>, "RIGHT"),
      Answer(FALSE, <<10, 10, 60, 10, 5, 5>>, "IDLE"),
      Answer(FALSE, <<30, 30, 10, 10, 10, 10>>, "CLICK"),
      Answer(TRUE, <<0, 0, 0, 0, 0, 100>>, "UP") }

-----------------------------------------------------------------------------
(* eeg_cursor_control.py: the debouncer of control_loop                    *)

SMOOTHING_WINDOW == 5

\* prediction_buffer.append on a deque(maxlen = SMOOTHING_WINDOW)
DequeAppend(buf, x) ==
    IF Len(buf) < SMOOTHING_WINDOW THEN Append(buf, x)
    ELSE Append(Tail(buf), x)

Count(buf, l) == Cardinality({i \in 1..Len(buf) : buf[i] = l})

\* the label counted least often instead of most often
LeastCommon(buf) ==
    buf[CHOOSE i \in 1..Len(buf) :
            /\ \A j \in 1..(i - 1) : buf[j] # buf[i]
            /\ \A j \in 1..Len(buf) : Count(buf, buf[j]) >= Count(buf, buf[i])
            /\ \A j \in 1..(i - 1) : Count(buf, buf[j]) > Count(buf, buf[i])]

\* Counter(buf).most_common(1)[0][0]: the Counter keeps its keys in order of
\* first insertion and most_common(1) is max() over them, so among labels
\* of equal count the one that entered the window first is returned
MostCommon(buf) ==
    buf[CHOOSE i \in 1..Len(buf) :
            /\ \A j \in 1..(i - 1) : buf[j] # buf[i]
            /\ \A j \in 1..Len(buf) : Count(buf, buf[j]) <= Count(buf, buf[i])
            /\ \A j \in 1..(i - 1) : Count(buf, buf[j]) < Count(buf, buf[i])]

\* the vote taken from two entries on
Smooth_from_two(buf, raw) == IF Len(buf) >= 2 THEN MostCommon(buf) ELSE raw

\* lines 295-300: `buf` already holds the raw prediction
Smooth(buf, raw) == IF Len(buf) >= 3 THEN MostCommon(buf) ELSE raw

-----------------------------------------------------------------------------
(* eeg_cursor_control.py: WebSocket handlers, operator actions, the loop   *)

\* how long the transport may stay silent, in control-loop ticks
LivenessWindow == 1

Min(a, b) == IF a < b THEN a ELSE b

on_open ==
    /\ ~ws_connected
    /\ ws_connected' = TRUE
    /\ UNCHANGED <<current_data, cursorVars, call, calibVars, trainVars,
                   restVars>>

on_close ==
    /\ ws_connected
    /\ ws_connected' = FALSE
    /\ UNCHANGED <<current_data, cursorVars, call, calibVars, trainVars,
                   restVars>>

\* a frame arrives on the open connection and updates the slot under data_lock
on_message(msgs) ==
    /\ ws_connected
    /\ data_lock = "free"
    /\ \E m \in msgs : current_data' = DictUpdate(current_data, m)
    /\ ticks_since_sample' = 0
    /\ UNCHANGED <<ws_connected, control_active, control_mode, loaded_model,
                   prediction_buffer, start_enabled, loop_pc, direction, sink,
                   call, calibVars, trainVars, restVars>>

\* on_message on any text frame, lines 473-481 (effort_based_control.py
\* lines 341-347 are the same): json.loads, then dict.update under
\* data_lock, both inside try / except: pass.  The frame is recorded in call.
on_message_text(frames) ==
    /\ ws_connected
    /\ data_lock = "free"
    /\ call.fn = "none"
    /\ \E f \in frames :
           /\ current_data' = Ingest(current_data, f)
           /\ call' = [fn |-> "on_message", message |-> f,
                       result |-> IF f.json = "object" THEN "updated"
                                  ELSE "passed"]
    /\ UNCHANGED <<ws_connected, cursorVars, calibVars, trainVars, restVars>>

\* the radio buttons set control_mode; ML Model without a model falls back
change_mode ==
    /\ \E m \in {"Threshold", "ML Model"} :
           control_mode' = IF m = "ML Model" /\ loaded_model.kind = "none"
                           THEN "Threshold" ELSE m
    /\ control_mode' # control_mode
    /\ UNCHANGED <<sharedVars, control_active, loaded_model, prediction_buffer,
                   start_enabled, loop_pc, direction, sink, ticks_since_sample,
                   call, calibVars, trainVars, restVars>>

\* change_mode, statement by statement.  Line 227 stores the radio button's
\* value in control_mode at once; with "ML Model" chosen and nothing loaded
\* the handler then waits in messagebox.showwarning (line 230), and only
\* after it lines 231-232 put "Threshold" back.  control_loop threads run
\* in between.
change_mode_select ==
    /\ ~(control_mode = "ML Model" /\ loaded_model.kind = "none")
    /\ \E m \in {"Threshold", "ML Model"} : control_mode' = m
    /\ control_mode' # control_mode
    /\ UNCHANGED <<sharedVars, control_active, loaded_model, prediction_buffer,
                   start_enabled, loop_pc, direction, sink, ticks_since_sample,
                   call, calibVars, trainVars, restVars>>

change_mode_fallback ==
    /\ control_mode = "ML Model"
    /\ loaded_model.kind = "none"
    /\ control_mode' = "Threshold"
    /\ UNCHANGED <<sharedVars, control_active, loaded_model, prediction_buffer,
                   start_enabled, loop_pc, direction, sink, ticks_since_sample,
                   call, calibVars, trainVars, restVars>>

\* the operator picks a pickle file; a failed load leaves loaded_model alone
load_model(packages) ==
    /\ \E p \in packages : loaded_model' = p
    /\ loaded_model' # loaded_model
    /\ UNCHANGED <<sharedVars, control_active, control_mode, prediction_buffer,
                   start_enabled, loop_pc, direction, sink, ticks_since_sample,
                   call, calibVars, trainVars, restVars>>

\* Start button (enabled while start_enabled): refuses without a connection
\* or, in ML mode, without a model; otherwise sets the flag and starts a
\* control_loop thread
start_control(threads) ==
    /\ start_enabled
    /\ ws_connected
    /\ ~(control_mode = "ML Model" /\ loaded_model.kind = "none")
    /\ \E t \in threads :
           /\ loop_pc[t] = "none"
           /\ loop_pc' = [loop_pc EXCEPT ![t] = "while"]
    /\ control_active' = TRUE
    /\ start_enabled' = FALSE
    /\ UNCHANGED <<sharedVars, control_mode, loaded_model, prediction_buffer,
                   direction, sink, ticks_since_sample, call, calibVars,
                   trainVars, restVars>>

\* Stop button (enabled while the Start button is not)
stop_control ==
    /\ ~start_enabled
    /\ control_active' = FALSE
    /\ start_enabled' = TRUE
    /\ UNCHANGED <<sharedVars, control_mode, loaded_model, prediction_buffer,
                   loop_pc, direction, sink, ticks_since_sample, call,
                   calibVars, trainVars, restVars>>

\* the raw prediction of one tick (lines 289-292)
Predict(answer) ==
    IF control_mode = "Threshold" THEN threshold_predict(current_data)
    ELSE model_predict(loaded_model, current_data, answer)

\* a loop that starts a tick without looking at control_active
loop_predict_unchecked(t, answers) ==
    /\ loop_pc[t] = "while"
    /\ \E a \in answers :
           LET raw == Predict(a)
               buf == DequeAppend(prediction_buffer, raw)
           IN  /\ prediction_buffer' = buf
               /\ direction' = [direction EXCEPT ![t] = Smooth(buf, raw)]
    /\ loop_pc' = [loop_pc EXCEPT ![t] = "act"]
    /\ ticks_since_sample' = Min(ticks_since_sample + 1, LivenessWindow + 1)
    /\ UNCHANGED <<sharedVars, control_active, control_mode, loaded_model,
                   start_enabled, sink, call, calibVars, trainVars, restVars>>

\* lines 287-303: the loop condition holds; predict, append, vote
loop_predict(t, answers) ==
    /\ loop_pc[t] = "while"
    /\ control_active
    /\ \E a \in answers :
           LET raw == Predict(a)
               buf == DequeAppend(prediction_buffer, raw)
           IN  /\ prediction_buffer' = buf
               /\ direction' = [direction EXCEPT ![t] = Smooth(buf, raw)]
    /\ loop_pc' = [loop_pc EXCEPT ![t] = "act"]
    /\ ticks_since_sample' = Min(ticks_since_sample + 1, LivenessWindow + 1)
    /\ UNCHANGED <<sharedVars, control_active, control_mode, loaded_model,
                   start_enabled, sink, call, calibVars, trainVars, restVars>>

\* line 287: the loop condition fails and the thread ends
loop_exit(t) ==
    /\ loop_pc[t] = "while"
    /\ ~control_active
    /\ loop_pc' = [loop_pc EXCEPT ![t] = "none"]
    /\ UNCHANGED <<sharedVars, control_active, control_mode, loaded_model,
                   prediction_buffer, start_enabled, direction, sink,
                   ticks_since_sample, call, calibVars, trainVars, restVars>>

\* lines 306-314.  pyautogui raises FailSafeException instead of acting when
\* the pointer is in a screen corner (sink.corner).  perform_click swallows
\* every exception; move_cursor answers FailSafeException with stop_control.
\* sink.last is the command pyautogui carried out on this step, if any.
loop_act_keeps_window(t) ==
    /\ loop_pc[t] = "act"
    /\ IF direction[t] = "CLICK"
       THEN /\ sink' = [sink EXCEPT !.last = IF sink.corner THEN "NONE"
                                               ELSE "CLICK"]
            /\ UNCHANGED <<prediction_buffer, control_active, start_enabled>>
       ELSE IF direction[t] # "IDLE"
       THEN /\ sink' = [sink EXCEPT !.last = IF sink.corner THEN "NONE"
                                               ELSE direction[t]]
            /\ control_active' = IF sink.corner THEN FALSE ELSE control_active
            /\ start_enabled' = IF sink.corner THEN TRUE ELSE start_enabled
            /\ UNCHANGED prediction_buffer
       ELSE /\ sink' = [sink EXCEPT !.last = "NONE"]
            /\ UNCHANGED <<prediction_buffer, control_active, start_enabled>>
    /\ loop_pc' = [loop_pc EXCEPT ![t] = "while"]
    /\ direction' = [direction EXCEPT ![t] = "IDLE"]
    /\ UNCHANGED <<sharedVars, control_mode, loaded_model, ticks_since_sample,
                   call, calibVars, trainVars, restVars>>

loop_act(t) ==
    /\ loop_pc[t] = "act"
    /\ IF direction[t] = "CLICK"
       THEN /\ sink' = [sink EXCEPT !.last = IF sink.corner THEN "NONE"
                                               ELSE "CLICK"]
            /\ prediction_buffer' = <<>>
            /\ UNCHANGED <<control_active, start_enabled>>
       ELSE IF direction[t] # "IDLE"
       THEN /\ sink' = [sink EXCEPT !.last = IF sink.corner THEN "NONE"
                                               ELSE direction[t]]
            /\ control_active' = IF sink.corner THEN FALSE ELSE control_active
            /\ start_enabled' = IF sink.corner THEN TRUE ELSE start_enabled
            /\ UNCHANGED prediction_buffer
       ELSE /\ sink' = [sink EXCEPT !.last = "NONE"]
            /\ UNCHANGED <<prediction_buffer, control_active, start_enabled>>
    /\ loop_pc' = [loop_pc EXCEPT ![t] = "while"]
    /\ direction' = [direction EXCEPT ![t] = "IDLE"]
    /\ UNCHANGED <<sharedVars, control_mode, loaded_model, ticks_since_sample,
                   call, calibVars, trainVars, restVars>>

\* the user's hand moves the pointer into or out of a screen corner
move_pointer ==
    /\ sink' = [sink EXCEPT !.corner = ~sink.corner]
    /\ UNCHANGED <<sharedVars, control_active, control_mode, loaded_model,
                   prediction_buffer, start_enabled, loop_pc, direction,
                   ticks_since_sample, call, calibVars, trainVars, restVars>>

-----------------------------------------------------------------------------
(* train_data_collect.py: baseline calibration and sample collection       *)

\* Python's true division of integers, kept exact: a fraction in lowest
\* terms with a positive denominator
RECURSIVE GCD(_, _)
GCD(a, b) == IF b = 0 THEN a ELSE GCD(b, a % b)

Abs(x) == IF x < 0 THEN -x ELSE x

Frac(n, d) ==
    LET g == GCD(Abs(n), d) IN [num |-> n \div g, den |-> d \div g]

FracOf(n) == Frac(n, 1)
FracSub(a, b) == Frac(a.num * b.den - b.num * a.den, a.den * b.den)
FracAdd(a, b) == Frac(a.num * b.den + b.num * a.den, a.den * b.den)

\* baseline_data as the module sets it at import
InitialBaseline ==
    [k \in Keys \ {"sig"} |-> FracOf(IF k \in {"att", "med"} THEN 50 ELSE 0)]

\* `keys` of _run_calibration, in the order its loop visits them
keys == <<"att", "med", "delta", "theta", "la", "ha", "lb", "hb", "lg", "mg">>

RECURSIVE Sum(_, _)
Sum(samples, k) ==
    IF samples = <<>> THEN 0
    ELSE samples[1][k] + Sum(Tail(samples), k)

\* floor division in place of true division
Mean_floor(samples, k) == FracOf(Sum(samples, k) \div Len(samples))

\* sum(values) / len(values) over values = [d[k] for d in temp_data]
Mean(samples, k) == Frac(Sum(samples, k), Len(samples))

\* iterations of the 10-second polling loop
MaxPolls == 2

\* CALIBRATE button (disabled while a run is in progress): refuses without a
\* connection, otherwise starts the _run_calibration thread
calibrate_baseline ==
    /\ calib_pc = "idle"
    /\ ws_connected
    /\ calib_pc' = "poll"
    /\ temp_data' = <<>>
    /\ polls' = 0
    /\ calib_report' = "none"
    /\ baseline_before' = baseline_data
    /\ UNCHANGED <<sharedVars, cursorVars, call, baseline_data, calib_k,
                   trainVars, restVars>>

\* lines 413-414: the 10 seconds are not over; current_data["sig"] is read
\* without data_lock
calib_poll ==
    /\ calib_pc = "poll"
    /\ polls < MaxPolls
    /\ polls' = polls + 1
    /\ calib_pc' = IF current_data["sig"] < 50 THEN "copy" ELSE "poll"
    /\ UNCHANGED <<sharedVars, cursorVars, call, baseline_data, temp_data,
                   calib_k, calib_report, baseline_before, trainVars, restVars>>

\* lines 415-417: data_lock is taken and the slot copied as it is now
calib_copy ==
    /\ calib_pc = "copy"
    /\ temp_data' = Append(temp_data, current_data)
    /\ calib_pc' = "poll"
    /\ UNCHANGED <<sharedVars, cursorVars, call, baseline_data, polls,
                   calib_k, calib_report, baseline_before, trainVars, restVars>>

\* line 415, on its own: `with data_lock:` is entered once the lock is free
calib_lock ==
    /\ calib_pc = "copy"
    /\ data_lock = "free"
    /\ data_lock' = "calib"
    /\ UNCHANGED <<sharedVars, cursorVars, call, calibVars, trainVars,
                   effortVars, featureVars, reader,
                   mainVars>>

\* a copy that leaves the with block without giving the lock back
calib_append_keeps_lock ==
    /\ calib_pc = "copy"
    /\ data_lock = "calib"
    /\ temp_data' = Append(temp_data, current_data)
    /\ calib_pc' = "poll"
    /\ UNCHANGED <<sharedVars, cursorVars, call, baseline_data, polls,
                   calib_k, calib_report, baseline_before, trainVars,
                   effortVars, featureVars, lockVars,
                   mainVars>>

\* line 416 and the end of the with block: the slot is copied and the lock
\* released
calib_append ==
    /\ calib_pc = "copy"
    /\ data_lock = "calib"
    /\ temp_data' = Append(temp_data, current_data)
    /\ calib_pc' = "poll"
    /\ data_lock' = "free"
    /\ UNCHANGED <<sharedVars, cursorVars, call, baseline_data, polls,
                   calib_k, calib_report, baseline_before, trainVars,
                   effortVars, featureVars, reader,
                   mainVars>>

\* a failed run that falls back to the import-time baseline
calib_timeout_resets ==
    /\ calib_pc = "poll"
    /\ polls >= 1
    /\ IF Len(temp_data) > 0
       THEN /\ calib_pc' = "average"
            /\ calib_k' = 1
            /\ UNCHANGED <<calib_report, baseline_data>>
       ELSE /\ calib_pc' = "report"
            /\ calib_report' = "Failed - check signal quality"
            /\ baseline_data' = InitialBaseline
            /\ UNCHANGED calib_k
    /\ UNCHANGED <<sharedVars, cursorVars, call, temp_data, polls,
                   baseline_before, trainVars, restVars>>

\* lines 413, 419, 432-433: the 10 seconds are over
calib_timeout ==
    /\ calib_pc = "poll"
    /\ polls >= 1
    /\ IF Len(temp_data) > 0
       THEN /\ calib_pc' = "average"
            /\ calib_k' = 1
            /\ UNCHANGED calib_report
       ELSE /\ calib_pc' = "report"
            /\ calib_report' = "Failed - check signal quality"
            /\ UNCHANGED calib_k
    /\ UNCHANGED <<sharedVars, cursorVars, call, baseline_data, temp_data,
                   polls, baseline_before, trainVars, restVars>>

\* lines 422-426: one iteration of `for k in keys`, without data_lock
calib_average ==
    /\ calib_pc = "average"
    /\ baseline_data' = [baseline_data EXCEPT
                            ![keys[calib_k]] = Mean(temp_data, keys[calib_k])]
    /\ IF calib_k < Len(keys)
       THEN /\ calib_k' = calib_k + 1
            /\ UNCHANGED <<calib_pc, calib_report>>
       ELSE /\ calib_k' = 0
            /\ calib_pc' = "report"
            /\ calib_report' = "Baseline set!"
    /\ UNCHANGED <<sharedVars, cursorVars, call, temp_data, polls,
                   baseline_before, trainVars, restVars>>

\* lines 426-435: the GUI thread shows the box and enables the button again;
\* the thread and its locals are gone
calib_done ==
    /\ calib_pc = "report"
    /\ calib_pc' = "idle"
    /\ temp_data' = <<>>
    /\ polls' = 0
    /\ calib_report' = "none"
    /\ baseline_before' = baseline_data
    /\ UNCHANGED <<sharedVars, cursorVars, call, baseline_data, calib_k,
                   trainVars, restVars>>

DIRECTIONS == <<"LEFT", "RIGHT", "UP", "DOWN", "IDLE">>

\* samples one session may collect
MaxSamples == 1

\* start_step_training: a session for the direction chosen in the step box
start_step_training ==
    /\ ~is_training
    /\ ws_connected
    /\ is_training' = TRUE
    /\ \E i \in 1..Len(DIRECTIONS) : session_direction' = DIRECTIONS[i]
    /\ training_data' = <<>>
    /\ UNCHANGED <<sharedVars, cursorVars, call, calibVars, restVars,
                   is_paused, train_pc, trial>>

\* lines 370-385: the Stop button (enabled while a session runs)
stop_training ==
    /\ is_training
    /\ is_training' = FALSE
    /\ is_paused' = FALSE
    /\ UNCHANGED <<sharedVars, cursorVars, call, calibVars, restVars,
                   session_direction, training_data, train_pc,
                   trial>>

\* the sample collect_sample builds under data_lock (lines 536-598)
TrainingSample(dir, d, b) ==
    LET att     == IF dir \in {"UP", "IDLE"} THEN d["att"] ELSE 0
        med     == IF dir \in {"DOWN", "IDLE"} THEN d["med"] ELSE 0
        l_alpha == IF dir \in {"LEFT", "IDLE"} THEN d["la"] ELSE 0
        h_alpha == IF dir \in {"LEFT", "IDLE"} THEN d["ha"] ELSE 0
        l_beta  == IF dir \in {"RIGHT", "IDLE"} THEN d["lb"] ELSE 0
        h_beta  == IF dir \in {"RIGHT", "IDLE"} THEN d["hb"] ELSE 0
    IN  [direction |-> dir, signal_quality |-> d["sig"],
         attention |-> att, meditation |-> med, raw |-> d["raw"],
         delta |-> 0, theta |-> 0,
         low_alpha |-> l_alpha, high_alpha |-> h_alpha,
         low_beta |-> l_beta, high_beta |-> h_beta,
         low_gamma |-> 0, mid_gamma |-> 0,
         norm_att |-> IF dir \in {"UP", "IDLE"}
                      THEN FracSub(FracOf(att), b["att"]) ELSE FracOf(0),
         norm_med |-> IF dir \in {"DOWN", "IDLE"}
                      THEN FracSub(FracOf(med), b["med"]) ELSE FracOf(0),
         norm_alpha |-> IF dir \in {"LEFT", "IDLE"}
                        THEN FracSub(FracOf(l_alpha + h_alpha),
                                     FracAdd(b["la"], b["ha"]))
                        ELSE FracOf(0),
         norm_beta |-> IF dir \in {"RIGHT", "IDLE"}
                       THEN FracSub(FracOf(l_beta + h_beta),
                                    FracAdd(b["lb"], b["hb"]))
                       ELSE FracOf(0)]

\* training_loop calls collect_sample(direction): artifact rejection, then
\* the sample is built from current_data and baseline_data and appended
collect_sample ==
    /\ is_training
    /\ Len(training_data) < MaxSamples
    /\ current_data["sig"] <= 50
    /\ training_data' = Append(training_data,
                               TrainingSample(session_direction, current_data,
                                              baseline_data))
    /\ UNCHANGED <<sharedVars, cursorVars, call, calibVars, restVars,
                   is_training, session_direction, is_paused, train_pc,
                   trial>>

\* start_training builds its sequence from DIRECTIONS, samples_per_dir
\* entries for each; with one sample per direction it is DIRECTIONS itself
TrainingSequence == DIRECTIONS

\* lines 297-334: the START button (enabled while no session runs).  With
\* sig > 100 the handler calls messagebox.askwarning, which tkinter does
\* not have, and ends there.  One training_loop thread at a time.
start_training ==
    /\ ~is_training
    /\ train_pc = "none"
    /\ ws_connected
    /\ current_data["sig"] <= 100
    /\ is_training' = TRUE
    /\ training_data' = <<>>
    /\ trial' = 0
    /\ train_pc' = "check"
    /\ UNCHANGED <<sharedVars, cursorVars, call, calibVars, restVars,
                   session_direction, is_paused>>

\* lines 387-396: the PAUSE / RESUME button (enabled while a session runs)
toggle_pause ==
    /\ is_training
    /\ is_paused' = ~is_paused
    /\ UNCHANGED <<sharedVars, cursorVars, call, calibVars, restVars,
                   is_training, session_direction, training_data, train_pc,
                   trial>>

\* lines 444-449: the for loop takes its next direction, if any, and tests
\* is_training; a change of direction leads to the auto-pause
training_loop_check ==
    /\ train_pc = "check"
    /\ IF trial = Len(TrainingSequence) \/ ~is_training
       THEN /\ train_pc' = "end"
            /\ UNCHANGED trial
       ELSE /\ trial' = trial + 1
            /\ train_pc' =
                   IF trial >= 1
                      /\ TrainingSequence[trial + 1] # TrainingSequence[trial]
                   THEN "autopause" ELSE "wait"
    /\ UNCHANGED <<sharedVars, cursorVars, call, calibVars, restVars,
                   is_training, session_direction, training_data, is_paused>>

\* line 450
training_loop_autopause ==
    /\ train_pc = "autopause"
    /\ is_paused' = TRUE
    /\ train_pc' = "wait"
    /\ UNCHANGED <<sharedVars, cursorVars, call, calibVars, restVars,
                   is_training, session_direction, training_data, trial>>

\* lines 461-468: the pause wait is over; stop or show the direction
training_loop_wait ==
    /\ train_pc = "wait"
    /\ ~(is_paused /\ is_training)
    /\ IF is_training
       THEN /\ session_direction' = TrainingSequence[trial]
            /\ train_pc' = "display"
       ELSE /\ train_pc' = "end"
            /\ UNCHANGED session_direction
    /\ UNCHANGED <<sharedVars, cursorVars, call, calibVars, restVars,
                   is_training, training_data, is_paused, trial>>

\* lines 478-491: the display time is over, or the session was stopped;
\* a pause keeps the thread inside the loop
training_loop_display ==
    /\ train_pc = "display"
    /\ ~(is_paused /\ is_training)
    /\ train_pc' = "check"
    /\ UNCHANGED <<sharedVars, cursorVars, call, calibVars, restVars,
                   is_training, session_direction, training_data, is_paused,
                   trial>>

\* lines 494-495: after the loop the thread asks the GUI thread for
\* training_complete if the session still runs, and ends
training_loop_end ==
    /\ train_pc = "end"
    /\ train_pc' = IF is_training THEN "complete" ELSE "none"
    /\ UNCHANGED <<sharedVars, cursorVars, call, calibVars, restVars,
                   is_training, session_direction, training_data, is_paused,
                   trial>>

\* lines 601-617: `global is_training` only; is_paused is not touched
training_complete ==
    /\ train_pc = "complete"
    /\ is_training' = FALSE
    /\ train_pc' = "none"
    /\ UNCHANGED <<sharedVars, cursorVars, call, calibVars, restVars,
                   session_direction, training_data, is_paused, trial>>

-----------------------------------------------------------------------------
(* effort_based_control.py: EMA smoothing and the proportional drive.      *)
(* Python floats are modelled as exact fractions.                          *)

FracMul(a, b) == Frac(a.num * b.num, a.den * b.den)
FracNeg(a) == [num |-> -a.num, den |-> a.den]
FracLess(a, b) == a.num * b.den < b.num * a.den
FracMax(a, b) == IF FracLess(a, b) THEN b ELSE a
FracMin(a, b) == IF FracLess(a, b) THEN a ELSE b

\* int(x) for x >= 0
FracInt(a) == a.num \div a.den

\* the effort controller's own current_data
EffortKeys == {"sig", "att", "med", "la", "ha", "lb", "hb"}
EffortInitialData == [k \in EffortKeys |-> IF k = "sig" THEN 200 ELSE 0]

EMA_ALPHA == Frac(1, 5)
MOVEMENT_SPEED_BASE == 8

\* lines 284-285: avg = EMA_ALPHA * value + (1 - EMA_ALPHA) * avg
Ema(value, avg) ==
    FracAdd(FracMul(EMA_ALPHA, FracOf(value)),
            FracMul(FracSub(FracOf(1), EMA_ALPHA), avg))

\* a clamp without the upper bound
Clamp_unbounded(x) == FracMax(FracOf(0), x)

\* max(0, min(100, x))
Clamp(x) == FracMax(FracOf(0), FracMin(FracOf(100), x))

\* a left drive without the deadzone
LDrive_no_deadzone(avg, base, sens) ==
    Clamp(FracMul(FracSub(avg, base), FracOf(sens)))

\* lines 298-305
LDrive(avg, base, sens) ==
    Clamp(FracMul(FracSub(FracSub(avg, base), FracOf(5)), FracOf(sens)))
RDrive(avg, base, sens) ==
    Clamp(FracMul(FracSub(FracNeg(FracSub(avg, base)), FracOf(5)),
                  FracOf(sens)))

\* lines 315-325: the branch taken inside the try block
Wanted(l_drive, r_drive) ==
    IF FracLess(FracOf(5), l_drive) THEN "LEFT"
    ELSE IF FracLess(FracOf(5), r_drive) THEN "RIGHT"
    ELSE "NEUTRAL"

\* the argument of pyautogui.move: int(-speed) or int(speed) with
\* speed = MOVEMENT_SPEED_BASE + drive / 8
Dx(wanted, l_drive, r_drive) ==
    IF wanted = "LEFT"
    THEN -FracInt(FracAdd(FracOf(MOVEMENT_SPEED_BASE),
                          FracMul(l_drive, Frac(1, 8))))
    ELSE IF wanted = "RIGHT"
    THEN FracInt(FracAdd(FracOf(MOVEMENT_SPEED_BASE),
                         FracMul(r_drive, Frac(1, 8))))
    ELSE 0

\* a tick that polled nothing and moved nothing
NoTick == [polled |-> FALSE, sig |-> 200, att |-> 0, med |-> 0,
           gate |-> FALSE, l_drive |-> FracOf(0), r_drive |-> FracOf(0),
           wanted |-> "NEUTRAL", raised |-> FALSE, dx |-> 0]

\* polled ticks the model follows
MaxTicks == 2

\* where a horizontal move may leave the pointer
AfterMove(zone) ==
    IF zone = "inside" THEN {"inside", "edge"}
    ELSE {"inside", "edge", "corner"}

\* the Set Baseline button
set_baseline ==
    /\ baseline_att' = avg_att
    /\ baseline_att' # baseline_att
    /\ UNCHANGED <<sharedVars, cursorVars, call, calibVars, trainVars,
                   avg_att, avg_med, active, fail_safe_paused, s_left,
                   s_right, pointer, last_tick, ticks, featureVars,
                   lockVars,
                   mainVars>>

\* the ACTIVATE / STOP SYSTEM button
toggle_active ==
    /\ active' = ~active
    /\ UNCHANGED <<sharedVars, cursorVars, call, calibVars, trainVars,
                   avg_att, avg_med, baseline_att, fail_safe_paused, s_left,
                   s_right, pointer, last_tick, ticks, featureVars,
                   lockVars,
                   mainVars>>

\* the operator drags a sensitivity slider (tk.Scale from 1 to 15)
set_sensitivity(values) ==
    /\ \E l \in values, r \in values :
           /\ s_left' = l
           /\ s_right' = r
    /\ <<s_left', s_right'>> # <<s_left, s_right>>
    /\ UNCHANGED <<sharedVars, cursorVars, call, calibVars, trainVars,
                   avg_att, avg_med, baseline_att, active, fail_safe_paused,
                   pointer, last_tick, ticks, featureVars,
                   lockVars,
                   mainVars>>

\* the user's hand moves the mouse
move_mouse ==
    /\ \E z \in {"corner", "edge", "inside"} : pointer' = z
    /\ pointer' # pointer
    /\ UNCHANGED <<sharedVars, cursorVars, call, calibVars, trainVars,
                   avg_att, avg_med, baseline_att, active, fail_safe_paused,
                   s_left, s_right, last_tick, ticks, featureVars,
                   lockVars,
                   mainVars>>

\* lines 244-254: update_loop while the fail-safe pause is on.  The pause
\* ends when the pointer is more than 10 px away from every screen edge.
update_loop_paused ==
    /\ fail_safe_paused
    /\ fail_safe_paused' = (pointer # "inside")
    /\ last_tick' = NoTick
    /\ UNCHANGED <<sharedVars, cursorVars, call, calibVars, trainVars,
                   avg_att, avg_med, baseline_att, active, s_left, s_right,
                   pointer, ticks, featureVars,
                   lockVars,
                   mainVars>>

\* update_loop leaving the system active when the fail-safe triggers
\* a tick that does not look at the signal quality before moving
update_loop_ignores_signal ==
    /\ ~fail_safe_paused
    /\ ticks < MaxTicks
    /\ LET att == current_data["att"]
           med == current_data["med"]
           sig == current_data["sig"]
           new_att == Ema(att, avg_att)
           new_med == Ema(med, avg_med)
           gate == active /\ ws_connected
           l_drive == IF gate THEN LDrive(new_att, baseline_att, s_left)
                      ELSE FracOf(0)
           r_drive == IF gate THEN RDrive(new_att, baseline_att, s_right)
                      ELSE FracOf(0)
           wanted == IF gate THEN Wanted(l_drive, r_drive) ELSE "NEUTRAL"
           raised == wanted # "NEUTRAL" /\ pointer = "corner"
           dx == IF raised THEN 0 ELSE Dx(wanted, l_drive, r_drive)
       IN  /\ avg_att' = new_att
           /\ avg_med' = new_med
           /\ fail_safe_paused' = raised
           /\ active' = IF raised THEN FALSE ELSE active
           /\ pointer' \in IF dx # 0 THEN AfterMove(pointer) ELSE {pointer}
           /\ last_tick' = [polled |-> TRUE, sig |-> sig, att |-> att,
                            med |-> med, gate |-> gate, l_drive |-> l_drive,
                            r_drive |-> r_drive, wanted |-> wanted,
                            raised |-> raised, dx |-> dx]
    /\ ticks' = ticks + 1
    /\ UNCHANGED <<sharedVars, cursorVars, call, calibVars, trainVars,
                   baseline_att, s_left, s_right, featureVars,
                   lockVars,
                   mainVars>>

\* a tick that recentres the baseline on the smoothed attention
update_loop_recentres ==
    /\ ~fail_safe_paused
    /\ ticks < MaxTicks
    /\ LET att == current_data["att"]
           med == current_data["med"]
           sig == current_data["sig"]
           new_att == Ema(att, avg_att)
           new_med == Ema(med, avg_med)
           gate == active /\ ws_connected /\ sig <= 50
           l_drive == IF gate THEN LDrive(new_att, baseline_att, s_left)
                      ELSE FracOf(0)
           r_drive == IF gate THEN RDrive(new_att, baseline_att, s_right)
                      ELSE FracOf(0)
           wanted == IF gate THEN Wanted(l_drive, r_drive) ELSE "NEUTRAL"
           raised == wanted # "NEUTRAL" /\ pointer = "corner"
           dx == IF raised THEN 0 ELSE Dx(wanted, l_drive, r_drive)
       IN  /\ avg_att' = new_att
           /\ avg_med' = new_med
           /\ baseline_att' = new_att
           /\ fail_safe_paused' = raised
           /\ active' = IF raised THEN FALSE ELSE active
           /\ pointer' \in IF dx # 0 THEN AfterMove(pointer) ELSE {pointer}
           /\ last_tick' = [polled |-> TRUE, sig |-> sig, att |-> att,
                            med |-> med, gate |-> gate, l_drive |-> l_drive,
                            r_drive |-> r_drive, wanted |-> wanted,
                            raised |-> raised, dx |-> dx]
    /\ ticks' = ticks + 1
    /\ UNCHANGED <<sharedVars, cursorVars, call, calibVars, trainVars,
                   s_left, s_right, featureVars, lockVars,
                   mainVars>>

update_loop_stays_active ==
    /\ ~fail_safe_paused
    /\ ticks < MaxTicks
    /\ LET att == current_data["att"]
           med == current_data["med"]
           sig == current_data["sig"]
           new_att == Ema(att, avg_att)
           new_med == Ema(med, avg_med)
           gate == active /\ ws_connected /\ sig <= 50
           l_drive == IF gate THEN LDrive(new_att, baseline_att, s_left)
                      ELSE FracOf(0)
           r_drive == IF gate THEN RDrive(new_att, baseline_att, s_right)
                      ELSE FracOf(0)
           wanted == IF gate THEN Wanted(l_drive, r_drive) ELSE "NEUTRAL"
           raised == wanted # "NEUTRAL" /\ pointer = "corner"
           dx == IF raised THEN 0 ELSE Dx(wanted, l_drive, r_drive)
       IN  /\ avg_att' = new_att
           /\ avg_med' = new_med
           /\ fail_safe_paused' = raised
           /\ active' = active
           /\ pointer' \in IF dx # 0 THEN AfterMove(pointer) ELSE {pointer}
           /\ last_tick' = [polled |-> TRUE, sig |-> sig, att |-> att,
                            med |-> med, gate |-> gate, l_drive |-> l_drive,
                            r_drive |-> r_drive, wanted |-> wanted,
                            raised |-> raised, dx |-> dx]
    /\ ticks' = ticks + 1
    /\ UNCHANGED <<sharedVars, cursorVars, call, calibVars, trainVars,
                   baseline_att, s_left, s_right, featureVars,
                   lockVars,
                   mainVars>>

\* lines 256-337: update_loop otherwise.  It runs on the Tk main loop, like
\* the buttons, so a tick is one step; current_data is read under
\* data_lock.  Ticks are at least POLLING_INTERVAL = 0.1 s apart, which is
\* more than MOVE_COOLDOWN = 0.05 s, so the cooldown test of line 312 always
\* passes.  att_history and alpha_history are written and never used.
\* pyautogui.move raises FailSafeException, before moving, when the pointer
\* is in a corner.
update_loop ==
    /\ ~fail_safe_paused
    /\ ticks < MaxTicks
    /\ LET att == current_data["att"]
           med == current_data["med"]
           sig == current_data["sig"]
           new_att == Ema(att, avg_att)
           new_med == Ema(med, avg_med)
           gate == active /\ ws_connected /\ sig <= 50
           l_drive == IF gate THEN LDrive(new_att, baseline_att, s_left)
                      ELSE FracOf(0)
           r_drive == IF gate THEN RDrive(new_att, baseline_att, s_right)
                      ELSE FracOf(0)
           wanted == IF gate THEN Wanted(l_drive, r_drive) ELSE "NEUTRAL"
           raised == wanted # "NEUTRAL" /\ pointer = "corner"
           dx == IF raised THEN 0 ELSE Dx(wanted, l_drive, r_drive)
       IN  /\ avg_att' = new_att
           /\ avg_med' = new_med
           /\ fail_safe_paused' = raised
           /\ active' = IF raised THEN FALSE ELSE active
           /\ pointer' \in IF dx # 0 THEN AfterMove(pointer) ELSE {pointer}
           /\ last_tick' = [polled |-> TRUE, sig |-> sig, att |-> att,
                            med |-> med, gate |-> gate, l_drive |-> l_drive,
                            r_drive |-> r_drive, wanted |-> wanted,
                            raised |-> raised, dx |-> dx]
    /\ ticks' = ticks + 1
    /\ UNCHANGED <<sharedVars, cursorVars, call, calibVars, trainVars,
                   baseline_att, s_left, s_right, featureVars,
                   lockVars,
                   mainVars>>

-----------------------------------------------------------------------------
(* eeg_model_trainer.py: the features the classifier is trained on, and    *)
(* model_predict's derivation of the same features from current_data       *)

FracDiv(a, b) == Frac(a.num * b.den, a.den * b.num)

\* effort_based_control.py: the documented beta-ratio bounds and the ratio
\* update_loop computes for its display (line 264)
BETA_RATIO_LEFT == Frac(9, 10)
BETA_RATIO_RIGHT == Frac(11, 10)
beta_ratio(d) == FracDiv(FracOf(d["hb"]), FracOf(d["lb"] + 1))

\* the trainer's feature_columns, in order
feature_columns == <<"attention", "meditation", "theta", "low_alpha",
                     "high_alpha", "low_beta", "high_beta">>

\* a collected sample as a row of the CSV the trainer reads; rows are kept
\* in timestamp order, the order sort_values('timestamp') gives them
Row(dir, d) ==
    [direction |-> dir, attention |-> d["att"], meditation |-> d["med"],
     theta |-> d["theta"], low_alpha |-> d["la"], high_alpha |-> d["ha"],
     low_beta |-> d["lb"], high_beta |-> d["hb"]]

ROLLING_WINDOW == 3

RECURSIVE ColumnSum(_, _, _)
ColumnSum(rows, idx, col) ==
    IF idx = {} THEN 0
    ELSE LET j == CHOOSE k \in idx : TRUE
         IN  rows[j][col] + ColumnSum(rows, idx \ {j}, col)

\* a window that also takes in the row after row i
CentredWindow(rows, i) ==
    LET group == { j \in 1..Len(rows) :
                       /\ rows[j].direction = rows[i].direction
                       /\ j <= i + 1 }
    IN  { j \in group :
            Cardinality({ k \in group : k > j }) < ROLLING_WINDOW }

\* groupby('direction').rolling(window=3, min_periods=1): the rows of the
\* window ending at row i, the last 3 rows of row i's direction up to i
Window(rows, i) ==
    LET group == { j \in 1..i : rows[j].direction = rows[i].direction }
    IN  { j \in group :
            Cardinality({ k \in group : k > j }) < ROLLING_WINDOW }

\* the window's sum divided by 3 however few rows the window holds
RollingMean_fixed_divisor(rows, i, col) ==
    Frac(ColumnSum(rows, Window(rows, i), col), ROLLING_WINDOW)

\* .mean() of that window
RollingMean(rows, i, col) ==
    LET w == Window(rows, i) IN Frac(ColumnSum(rows, w, col), Cardinality(w))

\* lines 88-91: every feature column is replaced by its rolling mean
SmoothedRow(rows, i) ==
    [c \in {"direction"} \cup { feature_columns[k] :
                                   k \in 1..Len(feature_columns) } |->
        IF c = "direction" THEN rows[i].direction
        ELSE RollingMean(rows, i, c)]

Rolling(rows) == [i \in 1..Len(rows) |-> SmoothedRow(rows, i)]

\* lines 93-101: the four ratio columns computed from the smoothed columns
\* of row r
TrainerRatios(r) ==
    LET alpha_sum == FracAdd(r["low_alpha"], r["high_alpha"])
        beta_sum  == FracAdd(r["low_beta"], r["high_beta"])
        theta     == r["theta"]
    IN  [alpha_theta_ratio |-> FracDiv(alpha_sum, FracAdd(theta, FracOf(1))),
         beta_alpha_ratio  |-> FracDiv(beta_sum,
                                       FracAdd(alpha_sum, FracOf(1))),
         beta_theta_ratio  |-> FracDiv(beta_sum, FracAdd(theta, FracOf(1))),
         engagement_ratio  |-> FracDiv(r["attention"],
                                       FracAdd(r["meditation"], FracOf(1)))]

\* the trainer's row of df[all_features] for a smoothed row
TrainerFeatures(r) ==
    [n \in InputDictNames |->
        IF n \in DerivedFeatureNames THEN TrainerRatios(r)[n] ELSE r[n]]

\* model_predict lines 353-363: base_data read from current_data under
\* data_lock
base_data(d) ==
    [attention |-> FracOf(d["att"]), meditation |-> FracOf(d["med"]),
     theta |-> FracOf(d["theta"]), low_alpha |-> FracOf(d["la"]),
     high_alpha |-> FracOf(d["ha"]), low_beta |-> FracOf(d["lb"]),
     high_beta |-> FracOf(d["hb"])]

\* derived_features with 2 added to the alpha denominator
derived_features_offset_two(b) ==
    LET alpha_sum == FracAdd(b["low_alpha"], b["high_alpha"])
        beta_sum  == FracAdd(b["low_beta"], b["high_beta"])
        theta     == b["theta"]
    IN  [alpha_theta_ratio |-> FracDiv(alpha_sum, FracAdd(theta, FracOf(1))),
         beta_alpha_ratio  |-> FracDiv(beta_sum,
                                       FracAdd(alpha_sum, FracOf(2))),
         beta_theta_ratio  |-> FracDiv(beta_sum, FracAdd(theta, FracOf(1))),
         engagement_ratio  |-> FracDiv(b["attention"],
                                       FracAdd(b["meditation"], FracOf(1)))]

\* model_predict lines 365-375
derived_features(b) ==
    LET alpha_sum == FracAdd(b["low_alpha"], b["high_alpha"])
        beta_sum  == FracAdd(b["low_beta"], b["high_beta"])
        theta     == b["theta"]
    IN  [alpha_theta_ratio |-> FracDiv(alpha_sum, FracAdd(theta, FracOf(1))),
         beta_alpha_ratio  |-> FracDiv(beta_sum,
                                       FracAdd(alpha_sum, FracOf(1))),
         beta_theta_ratio  |-> FracDiv(beta_sum, FracAdd(theta, FracOf(1))),
         engagement_ratio  |-> FracDiv(b["attention"],
                                       FracAdd(b["meditation"], FracOf(1)))]

\* line 376: input_dict = {**base_data, **derived_features}
InputDict(d) ==
    [n \in InputDictNames |->
        IF n \in DerivedFeatureNames THEN derived_features(base_data(d))[n]
        ELSE base_data(d)[n]]

\* lines 378-381: the vector in the order of the package's feature_names;
\* none when a name is missing (KeyError)
FeatureValues(model, d) ==
    IF \E i \in 1..Len(model.feature_names) :
           model.feature_names[i] \notin InputDictNames
    THEN <<>>
    ELSE [i \in 1..Len(model.feature_names) |->
             InputDict(d)[model.feature_names[i]]]

\* the streams of samples followed side by side
Runs == {1, 2}

\* the state of one stream after a sample: the EMA of the effort controller
\* advanced by its attention, the trainer's smoothing of the whole stream
EmaAfter(r, row) ==
    LET e == smoothed[r].ema
    IN  Append(e, Ema(row.attention,
                      IF e = <<>> THEN FracOf(0) ELSE e[Len(e)]))

push(r, rows, bound) ==
    /\ Len(df[r]) < bound
    /\ \E row \in rows :
           /\ df' = [df EXCEPT ![r] = Append(@, row)]
           /\ smoothed' = [smoothed EXCEPT
                              ![r] = [rolling |-> Rolling(df'[r]),
                                      ema |-> EmaAfter(r, row)]]
    /\ UNCHANGED <<sharedVars, cursorVars, call, calibVars, trainVars,
                   effortVars, input_dict, feature_values,
                   lockVars,
                   mainVars>>

\* one decision cycle of model_predict with a dict package, up to the
\* vector it hands to the scaler; the sample it read is also recorded as
\* the row a collector would have written for it
derive_features(dir, bound) ==
    /\ loaded_model.kind = "dict"
    /\ Len(df[1]) < bound
    /\ input_dict' = InputDict(current_data)
    /\ feature_values' = FeatureValues(loaded_model, current_data)
    /\ LET row == Row(dir, current_data)
       IN  /\ df' = [df EXCEPT ![1] = Append(@, row)]
           /\ smoothed' = [smoothed EXCEPT
                              ![1] = [rolling |-> Rolling(df'[1]),
                                      ema |-> EmaAfter(1, row)]]
    /\ UNCHANGED <<sharedVars, cursorVars, call, calibVars, trainVars,
                   effortVars, lockVars,
                   mainVars>>

-----------------------------------------------------------------------------
(* data_lock: a decision tick reads the slot inside one `with data_lock:`  *)
(* block, one key after the other; on_message updates it inside another    *)

\* the keys each reader takes from current_data, in the order of its code
ReadKeys(fn) ==
    IF fn = "threshold_predict" THEN <<"la", "ha", "lb", "hb">>
    ELSE IF fn = "model_predict"
    THEN <<"att", "med", "theta", "la", "ha", "lb", "hb">>
    ELSE <<"att", "med", "la", "ha", "lb", "hb", "sig">>

Readers == {"threshold_predict", "model_predict", "update_loop"}

\* got: the values read so far; seen: the slot when the block was entered
NoRead == [fn |-> "none", todo |-> <<>>, got |-> <<>>, seen |-> InitialData]

\* a reader that starts reading without taking data_lock
read_acquire_unlocked(fns) ==
    /\ data_lock = "free"
    /\ reader.todo = <<>>
    /\ \E f \in fns :
           reader' = [fn |-> f, todo |-> ReadKeys(f), got |-> <<>>,
                      seen |-> current_data]
    /\ UNCHANGED <<sharedVars, cursorVars, call, calibVars, trainVars,
                   effortVars, featureVars, data_lock,
                   mainVars>>

\* `with data_lock:` is entered: the reader waits until the lock is free
read_acquire(fns) ==
    /\ data_lock = "free"
    /\ reader.todo = <<>>
    /\ data_lock' = "reader"
    /\ \E f \in fns :
           reader' = [fn |-> f, todo |-> ReadKeys(f), got |-> <<>>,
                      seen |-> current_data]
    /\ UNCHANGED <<sharedVars, cursorVars, call, calibVars, trainVars,
                   effortVars, featureVars,
                   mainVars>>

\* one subscript current_data[key] inside the block
read_key ==
    /\ reader.todo # <<>>
    /\ LET k == Head(reader.todo)
       IN  reader' = [reader EXCEPT
                         !.todo = Tail(@),
                         !.got = Append(@, [key |-> k,
                                            value |-> current_data[k]])]
    /\ UNCHANGED <<sharedVars, cursorVars, call, calibVars, trainVars,
                   effortVars, featureVars, data_lock,
                   mainVars>>

\* the block is left
read_release ==
    /\ data_lock = "reader"
    /\ reader.todo = <<>>
    /\ data_lock' = "free"
    /\ UNCHANGED <<sharedVars, cursorVars, call, calibVars, trainVars,
                   effortVars, featureVars, reader,
                   mainVars>>

-----------------------------------------------------------------------------
(* main.py: the threshold controller fed by the ESP32 text stream          *)

STEP == 20
ATTENTION_HIGH == 70
ATTENTION_LOW == 30
MEDITATION_HIGH == 70
MEDITATION_LOW == 30
BLINK_THRESHOLD == 1500

\* the pyautogui calls
Move(dx, dy) == [op |-> "move", dx |-> dx, dy |-> dy]
Click == [op |-> "click", dx |-> 0, dy |-> 0]

\* lines 53-84: the pyautogui calls one reading asks for, in order
process_brainwave_data(attention, meditation, raw) ==
    LET vertical ==
            IF attention > ATTENTION_HIGH THEN <<Move(0, -STEP)>>
            ELSE IF meditation > MEDITATION_HIGH THEN <<Move(0, STEP)>>
            ELSE <<>>
        horizontal ==
            IF attention < ATTENTION_LOW THEN <<Move(-STEP, 0)>>
            ELSE IF meditation < MEDITATION_LOW THEN <<Move(STEP, 0)>>
            ELSE <<>>
        blink ==
            IF Abs(raw) > BLINK_THRESHOLD THEN <<Click>> ELSE <<>>
    IN  vertical \o horizontal \o blink

\* lines 130-136 with pyautogui.FAILSAFE (line 18): one parsed reading is
\* processed.  With the pointer in a screen corner the first pyautogui call
\* raises FailSafeException, which nothing catches: no command is carried
\* out and the program ends.
process_line(readings) ==
    /\ IF call.fn = "none" THEN TRUE ELSE ~call.raised
    /\ \E r \in readings, corner \in BOOLEAN :
           LET asked == process_brainwave_data(r.attention, r.meditation,
                                               r.raw)
               raised == corner /\ asked # <<>>
           IN  call' = [fn |-> "process_brainwave_data",
                        attention |-> r.attention,
                        meditation |-> r.meditation,
                        raw |-> r.raw,
                        corner |-> corner,
                        raised |-> raised,
                        result |-> IF raised THEN <<>> ELSE asked]
    /\ UNCHANGED <<sharedVars, cursorVars, calibVars, trainVars, restVars>>

\* the argument of sock.recv (line 101)
RECV_SIZE == 256

\* Bytes are written as strings: the ASCII ones as their character, and
\* "C3", "A9" for the two bytes of the UTF-8 encoding of one non-ASCII
\* letter, written "e'" once decoded.

\* bytes.decode(errors="ignore") of one chunk: a complete two-byte
\* sequence gives its letter; a lead byte without its continuation byte
\* and a continuation byte without its lead byte are dropped
RECURSIVE Decode(_)
Decode(bytes) ==
    IF bytes = <<>> THEN <<>>
    ELSE IF Head(bytes) = "C3"
    THEN IF Len(bytes) >= 2 /\ bytes[2] = "A9"
         THEN <<"e'">> \o Decode(Tail(Tail(bytes)))
         ELSE Decode(Tail(bytes))
    ELSE IF Head(bytes) = "A9" THEN Decode(Tail(bytes))
    ELSE <<Head(bytes)>> \o Decode(Tail(bytes))

Whitespace == {" ", "\r", "\n"}

\* str.strip()
RECURSIVE Strip(_)
Strip(line) ==
    IF line = <<>> THEN <<>>
    ELSE IF Head(line) \in Whitespace THEN Strip(Tail(line))
    ELSE IF line[Len(line)] \in Whitespace
    THEN Strip(SubSeq(line, 1, Len(line) - 1))
    ELSE line

\* the index of the first occurrence of c in s, 0 if there is none
First(s, c) ==
    IF \E i \in 1..Len(s) : s[i] = c
    THEN CHOOSE i \in 1..Len(s) :
             s[i] = c /\ \A j \in 1..(i - 1) : s[j] # c
    ELSE 0

\* str.split(",")
RECURSIVE Split(_)
Split(line) ==
    LET i == First(line, ",")
    IN  IF i = 0 THEN <<line>>
        ELSE <<SubSeq(line, 1, i - 1)>>
                 \o Split(SubSeq(line, i + 1, Len(line)))

Digit(c) == IF c = "0" THEN 0 ELSE IF c = "5" THEN 5 ELSE 9

\* int(part) succeeds on a non-empty run of digits, an optional sign in
\* front; anything else here raises ValueError
IsInt(part) ==
    LET text == Strip(part)
        digits == IF text # <<>> /\ Head(text) = "-" THEN Tail(text)
                  ELSE text
    IN  /\ digits # <<>>
        /\ \A i \in 1..Len(digits) : digits[i] \in {"0", "5", "9"}

RECURSIVE Value(_)
Value(digits) ==
    IF digits = <<>> THEN 0
    ELSE 10 * Value(SubSeq(digits, 1, Len(digits) - 1))
             + Digit(digits[Len(digits)])

IntOf(part) ==
    LET text == Strip(part)
    IN  IF Head(text) = "-" THEN -Value(Tail(text)) ELSE Value(text)

\* lines 122-150 for one framed line: the readings it hands to
\* process_brainwave_data (one or none)
ParseLine(raw_line) ==
    LET line == Strip(raw_line)
        parts == Split(line)
    IN  IF line = <<>> THEN <<>>
        ELSE IF Len(parts) < 3 THEN <<>>
        ELSE IF \A i \in 1..3 : IsInt(parts[i])
        THEN <<[attention |-> IntOf(parts[1]),
                meditation |-> IntOf(parts[2]),
                raw |-> IntOf(parts[3])]>>
        ELSE <<>>                                      \* ValueError

\* lines 120-121: `while "\n" in buffer`, each complete line split off the
\* front of the buffer and parsed
RECURSIVE Drain(_, _)
Drain(buf, done) ==
    LET i == First(buf, "\n")
    IN  IF i = 0 THEN [buffer |-> buf, handed |-> done]
        ELSE Drain(SubSeq(buf, i + 1, Len(buf)),
                   done \o ParseLine(SubSeq(buf, 1, i - 1)))

\* lines 101-150: one chunk is decoded, appended to the buffer and the
\* complete lines are taken out of it
Receive(buf, done, chunk) == Drain(buf \o Decode(chunk), done)

\* one pass of the main loop: recv returns the next bytes of the stream, at
\* least one and at most RECV_SIZE
recv ==
    /\ received < Len(stream)
    /\ \E n \in 1..(Len(stream) - received) :
           /\ n <= RECV_SIZE
           /\ LET chunk == SubSeq(stream, received + 1, received + n)
                  after == Receive(buffer, handed, chunk)
              IN  /\ buffer' = after.buffer
                  /\ handed' = after.handed
           /\ received' = received + n
    /\ UNCHANGED <<sharedVars, cursorVars, call, calibVars, trainVars,
                   effortVars, featureVars, lockVars, stream>>

-----------------------------------------------------------------------------
(* Initial states                                                          *)

CursorThreads == {1}

NoCall == [fn |-> "none", answer |-> Answer(FALSE, <<>>, "IDLE"),
           result |-> "IDLE"]

\* eeg_cursor_control.py after import and CursorControlApp.__init__
CursorInit ==
    /\ control_active = FALSE
    /\ control_mode = "Threshold"
    /\ loaded_model = NoModel
    /\ prediction_buffer = <<>>
    /\ start_enabled = TRUE
    /\ loop_pc = [t \in CursorThreads |-> "none"]
    /\ direction = [t \in CursorThreads |-> "IDLE"]
    /\ sink = [corner |-> FALSE, last |-> "NONE"]
    /\ ticks_since_sample = 0
    /\ call = NoCall

\* train_data_collect.py after import and TrainingApp.__init__
CalibInit ==
    /\ baseline_data = InitialBaseline
    /\ calib_pc = "idle"
    /\ temp_data = <<>>
    /\ polls = 0
    /\ calib_k = 0
    /\ calib_report = "none"
    /\ baseline_before = InitialBaseline
    /\ is_training = FALSE
    /\ session_direction = "IDLE"
    /\ training_data = <<>>
    /\ is_paused = FALSE
    /\ train_pc = "none"
    /\ trial = 0

\* effort_based_control.py after import and EffortControlApp.__init__
EffortInit ==
    /\ avg_att = FracOf(0)
    /\ avg_med = FracOf(0)
    /\ baseline_att = FracOf(50)
    /\ active = FALSE
    /\ fail_safe_paused = FALSE
    /\ s_left = 5
    /\ s_right = 10
    /\ pointer = "inside"
    /\ last_tick = NoTick
    /\ ticks = 0

\* main.py before its socket has delivered anything
MainInit ==
    /\ stream = <<>>
    /\ received = 0
    /\ buffer = <<>>
    /\ handed = <<>>

\* nobody holds data_lock and no decision tick is reading
LockInit ==
    /\ data_lock = "free"
    /\ reader = NoRead

\* no dataframe read and no feature vector built yet
FeatureInit ==
    /\ df = [r \in Runs |-> <<>>]
    /\ smoothed = [r \in Runs |-> [rolling |-> <<>>, ema |-> <<>>]]
    /\ input_dict = <<>>
    /\ feature_values = <<>>

-----------------------------------------------------------------------------
(* SpecPredict: threshold_predict and model_predict applied once to every  *)
(* content of the slot and every model package                             *)

BandValues == {0, 5000, 5001}
AlphaValues == {0, 3000, 3001}

PredictReadings ==
    { Reading(sig, 50, 50, la, ha, lb, hb) :
        sig \in {0, 200}, la \in AlphaValues, ha \in AlphaValues,
        lb \in BandValues, hb \in BandValues }

InitPredict ==
    /\ current_data \in PredictReadings
    /\ ws_connected = TRUE
    /\ CursorInit
    /\ CalibInit
    /\ EffortInit
    /\ FeatureInit
    /\ LockInit
    /\ MainInit

ApplyThreshold ==
    /\ call.fn = "none"
    /\ call' = [fn |-> "threshold_predict", answer |-> NoCall.answer,
                result |-> threshold_predict(current_data)]
    /\ UNCHANGED <<sharedVars, cursorVars, calibVars, trainVars, restVars>>

ApplyModel ==
    /\ call.fn = "none"
    /\ \E a \in ClassifierAnswers :
           call' = [fn |-> "model_predict", answer |-> a,
                    result |-> model_predict(loaded_model, current_data, a)]
    /\ UNCHANGED <<sharedVars, cursorVars, calibVars, trainVars, restVars>>

LoadAnyModel == call.fn = "none" /\ load_model(ModelPackages)

NextPredict == ApplyThreshold \/ ApplyModel \/ LoadAnyModel

SpecPredict == InitPredict /\ [][NextPredict]_vars

-----------------------------------------------------------------------------
(* SpecCursor: eeg_cursor_control.py with its WebSocket thread, the        *)
(* operator's buttons and one control_loop thread                          *)

\* frames the headset sends: low beta dominant (LEFT), high beta dominant
\* (RIGHT)
CursorMessages == { Reading(0, 50, 50, 0, 0, 6000, 0),
                    Reading(0, 50, 50, 0, 0, 0, 6000) }

CursorAnswers ==
    { Answer(FALSE, <<90, 2, 2, 2, 2, 2>>, "CLICK"),
      Answer(FALSE, <<10, 10, 10, 60, 5, 5>>, "LEFT"),
      Answer(FALSE, <<5, 5, 10, 20, 54, 6>>, "RIGHT") }

InitCursor ==
    /\ current_data = InitialData
    /\ ws_connected = FALSE
    /\ CursorInit
    /\ CalibInit
    /\ EffortInit
    /\ FeatureInit
    /\ LockInit
    /\ MainInit

OnMessageCursor == on_message(CursorMessages)
LoadModel == load_model({GoodPackage})
StartControl == start_control(CursorThreads)
LoopPredict == \E t \in CursorThreads : loop_predict(t, CursorAnswers)
LoopExit == \E t \in CursorThreads : loop_exit(t)
LoopAct == \E t \in CursorThreads : loop_act(t)

NextCursor ==
    \/ on_open
    \/ on_close
    \/ OnMessageCursor
    \/ change_mode
    \/ LoadModel
    \/ StartControl
    \/ stop_control
    \/ LoopPredict
    \/ LoopExit
    \/ LoopAct
    \/ move_pointer

SpecCursor == InitCursor /\ [][NextCursor]_vars

-----------------------------------------------------------------------------
(* SpecSkewed: the same program when the operator may also load a package  *)
(* trained on features model_predict does not derive                       *)

SkewedMessages == { Reading(0, 50, 50, 0, 0, 6000, 0) }

OnMessageSkewed == on_message(SkewedMessages)
LoadSkewed == load_model({GoodPackage, SkewedPackage})

NextSkewed ==
    \/ on_open
    \/ on_close
    \/ OnMessageSkewed
    \/ change_mode
    \/ LoadSkewed
    \/ StartControl
    \/ stop_control
    \/ LoopPredict
    \/ LoopExit
    \/ LoopAct
    \/ move_pointer

SpecSkewed == InitCursor /\ [][NextSkewed]_vars

-----------------------------------------------------------------------------
(* SpecCalib: train_data_collect.py with its WebSocket thread and the      *)
(* calibration thread                                                      *)

\* frames the headset sends: two readings with good contact and the
\* no-contact frame
CalibMessages == { Reading(0, 60, 40, 10, 20, 30, 40),
                   Reading(49, 45, 40, 14, 20, 30, 41),
                   InitialData }

InitCalib ==
    /\ current_data = InitialData
    /\ ws_connected = FALSE
    /\ CursorInit
    /\ CalibInit
    /\ EffortInit
    /\ FeatureInit
    /\ LockInit
    /\ MainInit

OnMessageCalib == on_message(CalibMessages)

NextCalib ==
    \/ on_open
    \/ on_close
    \/ OnMessageCalib
    \/ calibrate_baseline
    \/ calib_poll
    \/ calib_copy
    \/ calib_timeout
    \/ calib_average
    \/ calib_done

SpecCalib == InitCalib /\ [][NextCalib]_vars

-----------------------------------------------------------------------------
(* SpecCollect: the same program while a step-training session collects    *)
(* samples, reading baseline_data, during calibration                      *)

CollectMessages == { Reading(0, 60, 40, 10, 20, 30, 40), InitialData }

OnMessageCollect == on_message(CollectMessages)

NextCollect ==
    \/ on_open
    \/ on_close
    \/ OnMessageCollect
    \/ calibrate_baseline
    \/ calib_poll
    \/ calib_copy
    \/ calib_timeout
    \/ calib_average
    \/ calib_done
    \/ start_step_training
    \/ stop_training
    \/ collect_sample

SpecCollect == InitCalib /\ [][NextCollect]_vars

-----------------------------------------------------------------------------
(* SpecEffort: effort_based_control.py with its WebSocket thread, the      *)
(* operator's buttons and sliders, and the user's hand on the mouse        *)

\* frames the headset sends: high attention, low attention, no contact
EffortMessages ==
    { [EffortInitialData EXCEPT !["sig"] = 0, !["att"] = 90, !["med"] = 40],
      [EffortInitialData EXCEPT !["sig"] = 0, !["att"] = 10, !["med"] = 60],
      [EffortInitialData EXCEPT !["att"] = 90, !["med"] = 40] }

SliderValues == {1, 5, 10, 15}

InitEffort ==
    /\ current_data = EffortInitialData
    /\ ws_connected = FALSE
    /\ CursorInit
    /\ CalibInit
    /\ EffortInit
    /\ FeatureInit
    /\ LockInit
    /\ MainInit

OnMessageEffort == on_message(EffortMessages)
SetSensitivity == set_sensitivity(SliderValues)

NextEffort ==
    \/ on_open
    \/ on_close
    \/ OnMessageEffort
    \/ set_baseline
    \/ toggle_active
    \/ SetSensitivity
    \/ move_mouse
    \/ update_loop_paused
    \/ update_loop

SpecEffort == InitEffort /\ [][NextEffort]_vars

-----------------------------------------------------------------------------
(* SpecFeatures: model_predict deriving its feature vector, tick after     *)
(* tick, from the samples the WebSocket thread delivers, next to the       *)
(* trainer's smoothing of the same samples                                 *)

FeatureMessages ==
    { [InitialData EXCEPT !["sig"] = 0, !["att"] = 50, !["med"] = 49,
                          !["theta"] = 9, !["la"] = 10, !["ha"] = 20,
                          !["lb"] = 30, !["hb"] = 40],
      [InitialData EXCEPT !["sig"] = 0, !["att"] = 60, !["med"] = 39,
                          !["theta"] = 19, !["la"] = 14, !["ha"] = 26,
                          !["lb"] = 35, !["hb"] = 45],
      [InitialData EXCEPT !["sig"] = 0, !["att"] = 53, !["med"] = 49,
                          !["theta"] = 9, !["la"] = 10, !["ha"] = 20,
                          !["lb"] = 30, !["hb"] = 40] }

\* decision cycles the model follows
MaxFeatureTicks == 3

OnMessageFeatures == on_message(FeatureMessages)
LoadFeatureModel ==
    load_model({GoodPackage, ReorderedPackage, SkewedPackage})
DeriveFeatures == derive_features("UP", MaxFeatureTicks)

NextFeatures ==
    \/ on_open
    \/ on_close
    \/ OnMessageFeatures
    \/ LoadFeatureModel
    \/ DeriveFeatures

\* the connection is open and a sample with good contact has arrived
InitFeatures ==
    /\ current_data \in FeatureMessages
    /\ ws_connected = TRUE
    /\ CursorInit
    /\ CalibInit
    /\ EffortInit
    /\ FeatureInit
    /\ LockInit
    /\ MainInit

SpecFeatures == InitFeatures /\ [][NextFeatures]_vars

-----------------------------------------------------------------------------
(* SpecCausal: two streams of samples smoothed side by side, by the        *)
(* trainer's rolling mean and by the effort controller's EMA               *)

\* samples of two directions and two attention levels
CausalRows ==
    { Row(dir, [InitialData EXCEPT !["sig"] = 0, !["att"] = a]) :
        dir \in {"UP", "IDLE"}, a \in {20, 80} }

\* samples per stream
CausalLen == 3

PushCausal == \E r \in Runs : push(r, CausalRows, CausalLen)

NextCausal == PushCausal

SpecCausal == InitCursor /\ [][NextCausal]_vars

-----------------------------------------------------------------------------
(* SpecExample: one stream of attention readings through the trainer's     *)
(* rolling mean                                                            *)

ExampleReadings == <<20, 22, 85, 88, 90>>

ExampleRows ==
    { Row("UP", [InitialData EXCEPT !["sig"] = 0,
                                    !["att"] = ExampleReadings[k]]) :
        k \in 1..Len(ExampleReadings) }

\* samples in the stream
ExampleLen == 5

PushExample == push(1, ExampleRows, ExampleLen)

NextExample == PushExample

SpecExample == InitCursor /\ [][NextExample]_vars

-----------------------------------------------------------------------------
(* SpecIngest: on_message applied once to every kind of frame, on the slot *)
(* of eeg_cursor_control.py and on the slot of effort_based_control.py     *)

IngestKeys == {"sig", "att", "med", "blink"}

\* every mapping from a subset of IngestKeys to the values 0 and 77
IngestMappings ==
    UNION { [S -> {0, 77}] : S \in SUBSET IngestKeys }

IngestFrames ==
    { Frame("object", m) : m \in IngestMappings }
        \cup { Frame("number", <<>>), Frame("none", <<>>) }

IngestSlots == { InitialData, EffortInitialData,
                 Reading(0, 50, 50, 0, 0, 6000, 0) }

InitIngest ==
    /\ current_data \in IngestSlots
    /\ ws_connected = TRUE
    /\ CursorInit
    /\ CalibInit
    /\ EffortInit
    /\ FeatureInit
    /\ LockInit
    /\ MainInit

OnMessageText == on_message_text(IngestFrames)

NextIngest == OnMessageText

SpecIngest == InitIngest /\ [][NextIngest]_vars

-----------------------------------------------------------------------------
(* SpecLock: the WebSocket thread and a decision tick of either control    *)
(* program contending for data_lock                                        *)

LockMessages ==
    { [Reading(0, 50, 50, 1, 1, 1, 1) EXCEPT !["theta"] = 1],
      [Reading(10, 60, 60, 2, 2, 2, 2) EXCEPT !["theta"] = 2] }

OnMessageLock == on_message(LockMessages)
ReadAcquire == read_acquire(Readers)

NextLock ==
    \/ on_open
    \/ on_close
    \/ OnMessageLock
    \/ ReadAcquire
    \/ read_key
    \/ read_release

SpecLock == InitCursor /\ [][NextLock]_vars

-----------------------------------------------------------------------------
(* SpecBaseline: the two programs that keep a baseline, each a process of  *)
(* its own: the collector with baseline_data, the effort controller with   *)
(* baseline_att                                                            *)

\* which of the two programs this run is: the effort controller's slot has
\* its own set of keys
RunsEffort == DOMAIN current_data = EffortKeys

\* one good frame for the collector; its slot starts as the no-contact one
BaselineMessages == { Reading(0, 60, 40, 10, 20, 30, 40) }

OnMessageBaseline == on_message(BaselineMessages)

NextCollector ==
    \/ on_open
    \/ on_close
    \/ OnMessageBaseline
    \/ calibrate_baseline
    \/ calib_poll
    \/ calib_copy
    \/ calib_timeout
    \/ calib_average
    \/ calib_done
    \/ start_step_training
    \/ stop_training
    \/ collect_sample

NextBaseline ==
    \/ ~RunsEffort /\ NextCollector
    \/ RunsEffort /\ NextEffort

SpecBaseline == (InitCalib \/ InitEffort) /\ [][NextBaseline]_vars

-----------------------------------------------------------------------------
(* SpecCalibLock: the calibration run with the copy of a sample split into *)
(* taking data_lock and copying, against the WebSocket thread              *)

NextCalibLock ==
    \/ on_open
    \/ on_close
    \/ OnMessageCalib
    \/ calibrate_baseline
    \/ calib_poll
    \/ calib_lock
    \/ calib_append
    \/ calib_timeout
    \/ calib_average
    \/ calib_done

SpecCalibLock == InitCalib /\ [][NextCalibLock]_vars

-----------------------------------------------------------------------------
(* SpecMain: main.py processing the readings parsed from the stream        *)

MainLevels == {0, 29, 30, 50, 70, 71, 100}
MainRaws == {-1501, 0, 1500, 1501}

MainReadings ==
    [attention : MainLevels, meditation : MainLevels, raw : MainRaws]

ProcessLine == process_line(MainReadings)

NextMain == ProcessLine

SpecMain == InitCursor /\ [][NextMain]_vars

-----------------------------------------------------------------------------
(* SpecLoops: the Start and Stop buttons against the control_loop threads  *)
(* they have started; each Start creates a new thread (line 274)           *)

LoopThreads == {1, 2}

LoopMessages == { Reading(0, 50, 50, 0, 0, 6000, 0) }

InitLoops ==
    /\ current_data = InitialData
    /\ ws_connected = FALSE
    /\ control_active = FALSE
    /\ control_mode = "Threshold"
    /\ loaded_model = NoModel
    /\ prediction_buffer = <<>>
    /\ start_enabled = TRUE
    /\ loop_pc = [t \in LoopThreads |-> "none"]
    /\ direction = [t \in LoopThreads |-> "IDLE"]
    /\ sink = [corner |-> FALSE, last |-> "NONE"]
    /\ ticks_since_sample = 0
    /\ call = NoCall
    /\ CalibInit
    /\ EffortInit
    /\ FeatureInit
    /\ LockInit
    /\ MainInit

OnMessageLoops == on_message(LoopMessages)
StartLoop == start_control(LoopThreads)
LoopsPredict == \E t \in LoopThreads : loop_predict(t, CursorAnswers)
LoopsExit == \E t \in LoopThreads : loop_exit(t)
LoopsAct == \E t \in LoopThreads : loop_act(t)

NextLoops ==
    \/ on_open
    \/ on_close
    \/ OnMessageLoops
    \/ StartLoop
    \/ stop_control
    \/ LoopsPredict
    \/ LoopsExit
    \/ LoopsAct
    \/ move_pointer

SpecLoops == InitLoops /\ [][NextLoops]_vars

-----------------------------------------------------------------------------
(* SpecMode: the control loop while the operator switches the mode and     *)
(* loads models; the headset is connected and sends readings that          *)
(* threshold_predict answers with a direction                              *)

ModeMessages == { Reading(0, 50, 50, 0, 0, 6000, 0),
                  Reading(0, 50, 50, 0, 0, 0, 6000) }

ModeAnswers == { Answer(FALSE, <<10, 10, 10, 60, 5, 5>>, "LEFT"),
                 Answer(TRUE, <<0, 0, 0, 0, 0, 100>>, "UP") }

\* no change_mode handler is waiting in its warning box
GuiIdle == ~(control_mode = "ML Model" /\ loaded_model.kind = "none")

InitMode ==
    /\ current_data \in ModeMessages
    /\ ws_connected = TRUE
    /\ CursorInit
    /\ CalibInit
    /\ EffortInit
    /\ FeatureInit
    /\ LockInit
    /\ MainInit

OnMessageMode == on_message(ModeMessages)
LoadModeModel == GuiIdle /\ load_model({BareModel, GoodPackage})
StartMode == GuiIdle /\ start_control(CursorThreads)
StopMode == GuiIdle /\ stop_control
ModePredict == \E t \in CursorThreads : loop_predict(t, ModeAnswers)

NextMode ==
    \/ OnMessageMode
    \/ change_mode_select
    \/ change_mode_fallback
    \/ LoadModeModel
    \/ StartMode
    \/ StopMode
    \/ ModePredict
    \/ LoopExit
    \/ LoopAct

SpecMode == InitMode /\ [][NextMode]_vars

-----------------------------------------------------------------------------
(* SpecPause: a full training session of train_data_collect.py: the        *)
(* training_loop thread against the START, STOP and PAUSE buttons          *)

PauseMessages == { Reading(0, 60, 40, 10, 20, 30, 40) }

OnMessagePause == on_message(PauseMessages)

\* lines 485-489: the display loop collects while it is not held by a pause
CollectWhileShown ==
    /\ train_pc = "display"
    /\ ~is_paused
    /\ collect_sample

NextPause ==
    \/ on_open
    \/ on_close
    \/ OnMessagePause
    \/ start_training
    \/ stop_training
    \/ toggle_pause
    \/ training_loop_check
    \/ training_loop_autopause
    \/ training_loop_wait
    \/ training_loop_display
    \/ CollectWhileShown
    \/ training_loop_end
    \/ training_complete

SpecPause == InitCalib /\ [][NextPause]_vars

-----------------------------------------------------------------------------
(* SpecFraming: main.py receiving one byte stream in chunks of any sizes   *)

\* pieces of a stream: a reading, a reading with a non-ASCII letter inside
\* its first field, a blank line, a line of two fields, an unfinished line
FramingPieces ==
    { <<"9", ",", "5", ",", "0", "\n">>,
      <<"9", "C3", "A9", "0", ",", "5", ",", "0", "\n">>,
      <<"\r", "\n">>,
      <<"5", ",", "5", "\n">>,
      <<"-", "5", ",", "9", ",">> }

FramingStreams == { a \o b : a \in FramingPieces, b \in FramingPieces }

InitFraming ==
    /\ current_data = InitialData
    /\ ws_connected = FALSE
    /\ CursorInit
    /\ CalibInit
    /\ EffortInit
    /\ FeatureInit
    /\ data_lock = "free"
    /\ reader = NoRead
    /\ stream \in FramingStreams
    /\ received = 0
    /\ buffer = <<>>
    /\ handed = <<>>

NextFraming == recv

SpecFraming == InitFraming /\ [][NextFraming]_vars

-----------------------------------------------------------------------------
(* Properties of the prediction functions (SpecPredict)                    *)

\* C1: whenever the slot's signal quality says "no contact" (sig = 200,
\* above any quality ceiling), threshold_predict and model_predict both
\* return IDLE, whatever the other channels hold.
C1_QualityGateForcesIdle ==
    (call.fn # "none" /\ current_data["sig"] = 200) => call.result = "IDLE"

RuleLeft(d)  == d["lb"] > d["hb"] + 5000
RuleRight(d) == d["hb"] > d["lb"] + 5000
RuleUp(d)    == d["la"] > d["ha"] + 3000
RuleDown(d)  == d["ha"] > d["la"] + 3000

\* C7: threshold_predict answers with the first rule that matches in the
\* order LEFT, RIGHT, UP, DOWN (a beta rule beats an alpha rule that holds
\* at the same time), and with IDLE exactly when no rule matches.
C7_RulePriority ==
    call.fn = "threshold_predict" =>
        LET d == current_data
            beta == RuleLeft(d) \/ RuleRight(d)
        IN  /\ RuleLeft(d) => call.result = "LEFT"
            /\ RuleRight(d) => call.result = "RIGHT"
            /\ (RuleUp(d) /\ ~beta) => call.result = "UP"
            /\ (RuleDown(d) /\ ~beta) => call.result = "DOWN"
            /\ call.result = "IDLE" <=>
                   ~(RuleLeft(d) \/ RuleRight(d) \/ RuleUp(d) \/ RuleDown(d))

\* a beta rule and an alpha rule hold together and the beta label won
C7_Witness ==
    /\ call.fn = "threshold_predict"
    /\ RuleLeft(current_data)
    /\ RuleUp(current_data)
    /\ call.result = "LEFT"

\* the package is a dict whose feature names are all derivable and whose
\* classifier answered with one probability per label
ProbabilityAnswer ==
    /\ call.fn = "model_predict"
    /\ loaded_model.kind = "dict"
    /\ loaded_model.has_proba
    /\ \A i \in 1..Len(loaded_model.feature_names) :
           loaded_model.feature_names[i] \in InputDictNames
    /\ ~call.answer.raises

\* C8: with a classifier that returns a probability per label, model_predict
\* returns IDLE when the largest probability is below the floor (55 %) and
\* the label of the largest probability when it is at or above the floor.
C8_ConfidenceFloor ==
    ProbabilityAnswer =>
        LET p == call.answer.probs IN
        \A i \in 1..Len(p) :
            (\A j \in 1..Len(p) : p[j] <= p[i]) =>
                /\ p[i] < 55 => call.result = "IDLE"
                /\ p[i] >= 55 => call.result = classes_[i]

\* the largest probability is exactly the floor and its label is returned
C8_Witness ==
    /\ ProbabilityAnswer
    /\ \E i \in 1..Len(call.answer.probs) :
           /\ call.answer.probs[i] = 55
           /\ \A j \in 1..Len(call.answer.probs) : call.answer.probs[j] <= 55
           /\ call.result = classes_[i]
           /\ call.result # "IDLE"

-----------------------------------------------------------------------------
(* Properties of the control loop (SpecCursor)                             *)

\* C2: once the connection is closed and no sample has arrived for longer
\* than the liveness window, every control-loop tick decides IDLE.
C2_StaleSlotForcesIdle ==
    \A t \in CursorThreads :
        (/\ loop_pc[t] = "act"
         /\ ~ws_connected
         /\ ticks_since_sample > LivenessWindow) => direction[t] = "IDLE"

\* the window as the vote of the tick in progress saw it: the raw prediction
\* is its last entry
Voted(t) == loop_pc[t] = "act"
RawPrediction == prediction_buffer[Len(prediction_buffer)]

\* C9 as stated: the vote is used only once the window holds
\* SMOOTHING_WINDOW entries; with fewer entries the raw prediction is used.
C9_VoteOnlyWhenFull ==
    \A t \in CursorThreads :
        Voted(t) =>
            /\ Len(prediction_buffer) <= SMOOTHING_WINDOW
            /\ Len(prediction_buffer) < SMOOTHING_WINDOW =>
                   direction[t] = RawPrediction
            /\ Len(prediction_buffer) = SMOOTHING_WINDOW =>
                   \A l \in Labels : Count(prediction_buffer, l)
                                        <= Count(prediction_buffer, direction[t])

\* C9 amended: the window never holds more than SMOOTHING_WINDOW entries; the
\* vote is used as soon as it holds 3, and the raw prediction with fewer.
C9_VoteFromThree ==
    \A t \in CursorThreads :
        Voted(t) =>
            /\ Len(prediction_buffer) <= SMOOTHING_WINDOW
            /\ Len(prediction_buffer) < 3 => direction[t] = RawPrediction
            /\ Len(prediction_buffer) >= 3 =>
                   \A l \in Labels : Count(prediction_buffer, l)
                                        <= Count(prediction_buffer, direction[t])

\* a window of 3 or 4 entries whose vote overrules the raw prediction
C9_Witness ==
    \E t \in CursorThreads :
        /\ Voted(t)
        /\ Len(prediction_buffer) \in {3, 4}
        /\ direction[t] # RawPrediction

\* C10: with at least 3 entries in the window and one label strictly more
\* frequent than every other, the loop acts on that label.
C10_StrictMajorityWins ==
    \A t \in CursorThreads :
        (Voted(t) /\ Len(prediction_buffer) >= 3) =>
            \A l \in Labels :
                (\A o \in Labels \ {l} : Count(prediction_buffer, o)
                                            < Count(prediction_buffer, l))
                    => direction[t] = l

\* the windows [LEFT, LEFT, RIGHT] and [LEFT, RIGHT, RIGHT, RIGHT]
C10_Witness ==
    \E t \in CursorThreads :
        /\ Voted(t)
        /\ \/ /\ prediction_buffer = <<"LEFT", "LEFT", "RIGHT">>
              /\ direction[t] = "LEFT"
           \/ /\ prediction_buffer = <<"LEFT", "RIGHT", "RIGHT", "RIGHT">>
              /\ direction[t] = "RIGHT"

\* the labels that share the highest count in the window, and the position
\* of a label's latest occurrence
TiedLabels(buf) ==
    { l \in Labels : /\ Count(buf, l) > 0
                     /\ \A o \in Labels : Count(buf, o) <= Count(buf, l) }
LastSeen(buf, l) ==
    CHOOSE i \in 1..Len(buf) :
        buf[i] = l /\ \A j \in (i + 1)..Len(buf) : buf[j] # l

\* C11: when two or more labels are tied for the highest count in a window
\* of at least 3 entries, the loop acts on the tied label seen most
\* recently (the one whose latest occurrence is closest to the end).
C11_TieGoesToMostRecent ==
    \A t \in CursorThreads :
        (/\ Voted(t)
         /\ Len(prediction_buffer) >= 3
         /\ Cardinality(TiedLabels(prediction_buffer)) >= 2) =>
            /\ direction[t] \in TiedLabels(prediction_buffer)
            /\ \A l \in TiedLabels(prediction_buffer) :
                   LastSeen(prediction_buffer, l)
                       <= LastSeen(prediction_buffer, direction[t])

\* a control_loop step: the predict half of a tick and the act half
PredictStep(t) == loop_pc[t] = "while" /\ loop_pc'[t] = "act"
ActStep(t) == loop_pc[t] = "act" /\ loop_pc'[t] = "while"

\* C12: the tick that acts on CLICK leaves the window empty; the tick that
\* follows it acts on CLICK only if its own raw prediction is CLICK; and
\* whenever CLICK is acted on, a raw CLICK appended since the last clear is
\* in the window.
C12_ClickClearsWindow ==
    /\ [](\A t \in CursorThreads :
             (Voted(t) /\ direction[t] = "CLICK") =>
                 Count(prediction_buffer, "CLICK") > 0)
    /\ [][\A t \in CursorThreads :
             /\ (ActStep(t) /\ direction[t] = "CLICK") =>
                    prediction_buffer' = <<>>
             /\ (PredictStep(t) /\ prediction_buffer = <<>>
                     /\ direction'[t] = "CLICK") =>
                    prediction_buffer' = <<"CLICK">>]_vars

\* the tick after a click was carried out: the window holds only the raw
\* prediction LEFT and the loop is about to act on LEFT
C12_Witness ==
    \E t \in CursorThreads :
        /\ Voted(t)
        /\ sink.last = "CLICK"
        /\ prediction_buffer = <<"LEFT">>
        /\ direction[t] = "LEFT"

\* feature_names holds a name that input_dict has no entry for
Underivable(model) ==
    /\ model.kind = "dict"
    /\ \E i \in 1..Len(model.feature_names) :
           model.feature_names[i] \notin InputDictNames

\* C13: a tick that predicts with a package whose feature_names holds an
\* underivable name appends the raw prediction IDLE; a direction other than
\* IDLE is acted on in that tick only as the vote of a window of at least 3
\* entries, won by a label an earlier tick predicted; the loop goes on to
\* its act step with control_active untouched, and a control_loop thread
\* ends only by finding control_active false.
C13_UnknownFeatureGivesIdle ==
    [][\A t \in CursorThreads :
          /\ (/\ PredictStep(t)
              /\ control_mode = "ML Model"
              /\ Underivable(loaded_model)) =>
                 LET buf == prediction_buffer' IN
                 /\ buf[Len(buf)] = "IDLE"
                 /\ control_active' = control_active
                 /\ direction'[t] # "IDLE" =>
                        /\ Len(buf) >= 3
                        /\ \E i \in 1..(Len(buf) - 1) : buf[i] = direction'[t]
          /\ (loop_pc[t] # "none" /\ loop_pc'[t] = "none") =>
                 (loop_pc[t] = "while" /\ ~control_active)]_vars

\* the second tick in a row that predicted with such a package: the window
\* ends with two IDLE entries and the loop is about to act on IDLE
C13_Witness ==
    \E t \in CursorThreads :
        /\ Voted(t)
        /\ control_mode = "ML Model"
        /\ Underivable(loaded_model)
        /\ Len(prediction_buffer) >= 2
        /\ prediction_buffer[Len(prediction_buffer) - 1] = "IDLE"
        /\ RawPrediction = "IDLE"
        /\ direction[t] = "IDLE"
        /\ control_active

\* C15: when pyautogui raises FailSafeException (pointer in a corner) on
\* the action of a tick, a move or a click, control_active becomes false.
C15_FailSafeStopsControl ==
    [][\A t \in CursorThreads :
          (ActStep(t) /\ direction[t] # "IDLE" /\ sink.corner) =>
              ~control_active']_vars

-----------------------------------------------------------------------------
(* Properties of the calibration (SpecCalib, SpecCollect)                  *)

\* C3: a run that accepted no sample reports the failure and leaves
\* baseline_data, on every channel, as it was when the run started.
C3_FailedRunKeepsBaseline ==
    (calib_pc = "report" /\ temp_data = <<>>) =>
        /\ calib_report = "Failed - check signal quality"
        /\ baseline_data = baseline_before

\* a failed run after an earlier run had replaced the initial baseline
C3_Witness ==
    /\ calib_pc = "report"
    /\ temp_data = <<>>
    /\ polls = MaxPolls
    /\ calib_report = "Failed - check signal quality"
    /\ baseline_before # InitialBaseline

\* the baseline the run in progress is about to have written
NewBaseline ==
    [k \in DOMAIN baseline_data |->
        IF \E i \in 1..Len(keys) : keys[i] = k
        THEN Mean(temp_data, k) ELSE baseline_data[k]]

CompleteBaselines ==
    IF calib_pc = "average" THEN {baseline_before, NewBaseline}
    ELSE {baseline_data}

\* C4: every sample collect_sample appends is computed from a complete
\* baseline: the one before the run or the one after it, never a mix.
C4_ReaderSeesCompleteBaseline ==
    [][Len(training_data') > Len(training_data) =>
           \E b \in CompleteBaselines :
               training_data'[Len(training_data')] =
                   TrainingSample(session_direction, current_data, b)]_vars

\* C5: every sample in the accumulator has sig < 50.
C5_OnlyGoodSamplesAccumulated ==
    \A i \in 1..Len(temp_data) : temp_data[i]["sig"] < 50

\* C6: after a successful run each of the ten channels holds the arithmetic
\* mean of the accumulated samples: value * count = sum.
C6_BaselineIsMean ==
    (calib_pc = "report" /\ calib_report = "Baseline set!") =>
        /\ Len(temp_data) > 0
        /\ \A i \in 1..Len(keys) :
               LET v == baseline_data[keys[i]] IN
               /\ v.den > 0
               /\ v.num * Len(temp_data) = v.den * Sum(temp_data, keys[i])

\* two different samples were accumulated and their mean is not an integer
C6_Witness ==
    /\ calib_pc = "report"
    /\ calib_report = "Baseline set!"
    /\ Len(temp_data) = 2
    /\ temp_data[1] # temp_data[2]
    /\ baseline_data["att"].den = 2

-----------------------------------------------------------------------------
(* Properties of the effort controller (SpecEffort)                        *)

\* an update_loop tick that polled a sample
PolledTick == ticks' = ticks + 1

\* what a step may do around the fail-safe pause
FailSafeSteps ==
    /\ (PolledTick /\ last_tick'.raised) => (fail_safe_paused' /\ ~active')
    /\ (~fail_safe_paused /\ fail_safe_paused') =>
           (PolledTick /\ last_tick'.raised /\ ~active')
    /\ fail_safe_paused => ~PolledTick
    /\ (PolledTick /\ last_tick'.dx # 0) => (~fail_safe_paused /\ active)
    /\ (~active /\ active') => (ticks' = ticks /\ last_tick' = last_tick)

\* C14: the tick on which pyautogui raises FailSafeException sets
\* fail_safe_paused and forces active to false; while fail_safe_paused is
\* true no tick polls a sample or issues a movement; a movement is issued
\* only by a tick that found the pause cleared and the system active, and
\* no tick of update_loop sets active.
C14_FailSafePausesPipeline ==
    /\ [](fail_safe_paused => last_tick.dx = 0)
    /\ [][FailSafeSteps]_vars

\* the second polled tick found the pointer in a corner: pyautogui raised,
\* nothing moved, the pause is on and the system was deactivated
C14_Witness ==
    /\ ticks = 2
    /\ last_tick.raised
    /\ last_tick.dx = 0
    /\ fail_safe_paused
    /\ ~active

\* C19: after the first polled tick avg_att equals the raw attention of that
\* tick and avg_med its raw meditation; every later polled tick sets
\* avg' = 0.2 * value + 0.8 * avg.
C19_EmaSeededByFirstValue ==
    /\ []((ticks = 1 /\ last_tick.polled) =>
             /\ avg_att = FracOf(last_tick.att)
             /\ avg_med = FracOf(last_tick.med))
    /\ [][(PolledTick /\ ticks >= 1) =>
             /\ avg_att' = FracAdd(FracMul(Frac(2, 10), FracOf(last_tick'.att)),
                                   FracMul(Frac(8, 10), avg_att))
             /\ avg_med' = FracAdd(FracMul(Frac(2, 10), FracOf(last_tick'.med)),
                                   FracMul(Frac(8, 10), avg_med))]_vars

\* C24: a polled sample whose signal quality is above the acceptance
\* threshold (sig > 50) is not smoothed: the tick that polls it leaves
\* avg_att and avg_med unchanged.
C24_RejectedSampleIsNotSmoothed ==
    [][(PolledTick /\ current_data["sig"] > 50)
          => (avg_att' = avg_att /\ avg_med' = avg_med)]_vars

\* a polled tick in the documented move mode (Attention > 60, Meditation <
\* 45) whose control block runs and whose pyautogui call is not refused
MoveModeTick ==
    /\ PolledTick
    /\ last_tick'.gate
    /\ ~last_tick'.raised
    /\ current_data["att"] > 60
    /\ current_data["med"] < 45

\* C27: in move mode a tick whose betaRatio = hb/(lb+1) is below 0.9 issues
\* a LEFT movement (dx < 0) and one whose betaRatio is above 1.1 issues a
\* RIGHT movement (dx > 0).
C27_BetaRatioSteers ==
    [][MoveModeTick =>
          /\ FracLess(beta_ratio(current_data), BETA_RATIO_LEFT)
                 => last_tick'.dx < 0
          /\ FracLess(BETA_RATIO_RIGHT, beta_ratio(current_data))
                 => last_tick'.dx > 0]_vars

\* C28: a polled tick whose meditation is above 55 and whose attention is
\* below 40 issues no cursor movement.
C28_RelaxedTickIsIdle ==
    [][(PolledTick /\ current_data["med"] > 55 /\ current_data["att"] < 40)
          => last_tick'.dx = 0]_vars

\* C30: a polled tick issues a movement only if the system is active, the
\* WebSocket is connected and the polled signal quality is at most 50.
C30_MovementNeedsOpenGate ==
    [][(PolledTick /\ last_tick'.dx # 0)
          => (active /\ ws_connected /\ current_data["sig"] <= 50)]_vars

\* a tick has moved the pointer, and the sample it polled was acceptable
C30_Witness ==
    /\ last_tick.polled
    /\ last_tick.dx # 0
    /\ last_tick.sig <= 50
    /\ ws_connected

\* |avg_att - baseline_att| <= 5 for the values the tick's control block
\* uses: the smoothed attention after the tick's EMA, the baseline before
InDeadzone ==
    LET diff == FracSub(avg_att', baseline_att)
    IN  /\ ~FracLess(FracOf(5), diff)
        /\ ~FracLess(diff, FracOf(-5))

IsZero(x) == ~FracLess(FracOf(0), x) /\ ~FracLess(x, FracOf(0))

\* C32: on every polled tick where |avg_att - baseline_att| <= 5 both
\* drive values are 0 and no movement is issued, whatever the sliders say.
C32_DeadzoneIsQuiet ==
    [][(PolledTick /\ InDeadzone) =>
          /\ IsZero(last_tick'.l_drive)
          /\ IsZero(last_tick'.r_drive)
          /\ last_tick'.dx = 0]_vars

\* a tick whose control block ran with the smoothed attention inside the
\* deadzone of a baseline the operator had set, and which did not move
C32_Witness ==
    /\ last_tick.polled
    /\ last_tick.gate
    /\ baseline_att # avg_att
    /\ ~FracLess(FracOf(5), FracSub(avg_att, baseline_att))
    /\ ~FracLess(FracSub(avg_att, baseline_att), FracOf(-5))
    /\ last_tick.dx = 0

\* a drive value lies in [0, 100]
InRange(x) == ~FracLess(x, FracOf(0)) /\ ~FracLess(FracOf(100), x)

\* C33: on every polled tick l_drive and r_drive lie in [0, 100] and at
\* most one of them is positive; a LEFT movement comes with a zero r_drive
\* and a RIGHT movement with a zero l_drive, so one tick never moves both
\* ways.
C33_DrivesBoundedAndExclusive ==
    [][PolledTick =>
          /\ InRange(last_tick'.l_drive)
          /\ InRange(last_tick'.r_drive)
          /\ IsZero(last_tick'.l_drive) \/ IsZero(last_tick'.r_drive)
          /\ last_tick'.dx < 0 => IsZero(last_tick'.r_drive)
          /\ last_tick'.dx > 0 => IsZero(last_tick'.l_drive)]_vars

\* a tick whose right drive was cut off at 100 and which moved right
C33_Witness ==
    /\ last_tick.polled
    /\ last_tick.gate
    /\ last_tick.r_drive = FracOf(100)
    /\ IsZero(last_tick.l_drive)
    /\ last_tick.dx > 0

-----------------------------------------------------------------------------
(* Properties of the features (SpecFeatures)                               *)

\* the number of decision cycles so far
Cycle == Len(df[1])

\* C16: at every decision cycle i, each base feature value model_predict
\* feeds to the classifier equals the trainer's 3-sample rolling mean of
\* that channel over the samples up to cycle i.
C16_OnlineSmoothingMatchesTrainer ==
    Cycle > 0 =>
        \A k \in 1..Len(feature_columns) :
            input_dict[feature_columns[k]]
                = smoothed[1].rolling[Cycle][feature_columns[k]]

\* C17: in every decision cycle the derived features model_predict
\* computes are the trainer's ratios of the same base values, with 1 added
\* to every denominator, and the vector for the scaler lists input_dict's
\* values in the order of the package's feature_names.
C17_DerivedFeaturesMatchTrainer ==
    [][Len(df'[1]) = Cycle + 1 =>
         LET r == df'[1][Cycle + 1]
             alpha == r.low_alpha + r.high_alpha
             beta == r.low_beta + r.high_beta
             names == loaded_model.feature_names
         IN  /\ \A n \in DerivedFeatureNames :
                    input_dict'[n] = TrainerRatios(input_dict')[n]
             /\ input_dict'["alpha_theta_ratio"] = Frac(alpha, r.theta + 1)
             /\ input_dict'["beta_alpha_ratio"] = Frac(beta, alpha + 1)
             /\ input_dict'["beta_theta_ratio"] = Frac(beta, r.theta + 1)
             /\ input_dict'["engagement_ratio"]
                    = Frac(r.attention, r.meditation + 1)
             /\ ~Underivable(loaded_model) =>
                    /\ Len(feature_values') = Len(names)
                    /\ \A i \in 1..Len(names) :
                           /\ feature_values'[i] = input_dict'[names[i]]
                           /\ feature_values'[i]
                                  = TrainerFeatures(input_dict')[names[i]]]_vars

\* a cycle with a package whose feature_names are in another order than
\* the trainer's: the vector starts with engagement_ratio = 60 / 40
C17_Witness ==
    /\ Cycle > 0
    /\ loaded_model = ReorderedPackage
    /\ Len(feature_values) = 4
    /\ feature_values[1] = Frac(3, 2)
    /\ feature_values[4] = FracOf(60)
    /\ input_dict["beta_alpha_ratio"] = Frac(80, 41)

-----------------------------------------------------------------------------
(* Properties of the smoothing (SpecCausal, SpecExample)                   *)

Prefix(seq, i) == SubSeq(seq, 1, i)

\* the two streams agree on their first i samples
SharedPrefix(i) ==
    /\ i <= Len(df[1])
    /\ i <= Len(df[2])
    /\ Prefix(df[1], i) = Prefix(df[2], i)

\* C18: two streams that share their first i samples have the same
\* smoothed values at ticks 1..i, for the trainer's per-direction rolling
\* mean and for the EMA, whatever samples follow; and a further sample
\* never changes the smoothed value of an earlier tick.
C18_SmoothingIsCausal ==
    /\ [](\A i \in 1..CausalLen + 1 :
             SharedPrefix(i) =>
                 /\ Prefix(smoothed[1].rolling, i)
                        = Prefix(smoothed[2].rolling, i)
                 /\ Prefix(smoothed[1].ema, i) = Prefix(smoothed[2].ema, i))
    /\ [][\A r \in Runs :
             /\ Prefix(smoothed'[r].rolling, Len(df[r])) = smoothed[r].rolling
             /\ Prefix(smoothed'[r].ema, Len(df[r])) = smoothed[r].ema]_vars

\* two streams of three samples that agree on the first two and differ in
\* the attention of the third: their smoothed values differ only at tick 3
C18_Witness ==
    /\ Len(df[1]) = 3
    /\ Len(df[2]) = 3
    /\ SharedPrefix(2)
    /\ df[1][3].direction = df[2][3].direction
    /\ df[1][3].direction = df[1][2].direction
    /\ df[1][3].attention # df[2][3].attention
    /\ smoothed[1].rolling[3] # smoothed[2].rolling[3]
    /\ smoothed[1].ema[3] # smoothed[2].ema[3]
    /\ Prefix(smoothed[1].rolling, 2) = Prefix(smoothed[2].rolling, 2)

\* the stream starts with the readings 20, 22, 85, 88, 90
ExampleStream ==
    /\ Len(df[1]) >= Len(ExampleReadings)
    /\ \A k \in 1..Len(ExampleReadings) :
           df[1][k].attention = ExampleReadings[k]

\* the rule of the scenario: UP when the smoothed attention of tick i
\* exceeds the baseline 25 by more than the margin 40
UpRule(i) ==
    FracLess(FracOf(40),
             FracSub(smoothed[1].rolling[i].attention, FracOf(25)))

\* C20: on the readings 20, 22, 85, 88, 90 the window-3 rolling mean gives
\* 20, 21, 127/3, 65, 263/3; with baseline 25 and margin 40 the UP rule does
\* not fire at ticks 1 and 2 and has fired by tick 4 or 5.
C20_ExampleCrossesMarginByTickFive ==
    ExampleStream =>
        /\ smoothed[1].rolling[1].attention = FracOf(20)
        /\ smoothed[1].rolling[2].attention = FracOf(21)
        /\ smoothed[1].rolling[3].attention = Frac(127, 3)
        /\ smoothed[1].rolling[4].attention = FracOf(65)
        /\ smoothed[1].rolling[5].attention = Frac(263, 3)
        /\ ~UpRule(1)
        /\ ~UpRule(2)
        /\ UpRule(4) \/ UpRule(5)

\* the five readings have been pushed; the rule fires at tick 5 and did not
\* at tick 4, where the smoothed value 65 exceeds the baseline by exactly 40
C20_Witness ==
    /\ ExampleStream
    /\ UpRule(5)
    /\ ~UpRule(4)
    /\ ~UpRule(3)

-----------------------------------------------------------------------------
(* Properties of the ingestion (SpecIngest)                                *)

\* C21: on_message given a mapping overwrites (or adds) exactly the
\* channels the mapping holds and keeps the value of every other channel;
\* given a frame that is not a JSON mapping it leaves current_data as it
\* was; in both cases the handler returns normally.
C21_IngestionToleratesMissingKeys ==
    [][(call.fn = "none" /\ call'.fn = "on_message") =>
         LET f == call'.message IN
         /\ f.json = "object" =>
                /\ DOMAIN current_data'
                       = DOMAIN current_data \cup DOMAIN f.data
                /\ \A k \in DOMAIN f.data : current_data'[k] = f.data[k]
                /\ \A k \in DOMAIN current_data \ DOMAIN f.data :
                       current_data'[k] = current_data[k]
         /\ f.json # "object" => current_data' = current_data
         /\ call'.result \in {"updated", "passed"}]_vars

\* a mapping with sig and med but without att arrived on a slot holding
\* att = 50: sig and med are overwritten, att is kept
C21_Witness ==
    /\ call.fn = "on_message"
    /\ call.message.json = "object"
    /\ DOMAIN call.message.data = {"sig", "med"}
    /\ call.message.data["med"] = 77
    /\ current_data["med"] = 77
    /\ current_data["att"] = 50
    /\ current_data["lb"] = 6000

\* the steps a control_loop thread may take once control_active is false
StoppedSteps(t) ==
    \/ loop_pc'[t] = loop_pc[t]
    \/ loop_pc[t] = "act" /\ loop_pc'[t] = "while" /\ ~control_active'
    \/ loop_pc[t] = "while" /\ loop_pc'[t] = "none"

\* C23: once control_active is false (and Start is not pressed again) a
\* running control_loop thread finishes at most the tick it is in, which
\* is at most one cursor action, and at its next loop-condition check it
\* exits: it never starts another tick.
C23_StopIsCooperativeAndBounded ==
    [][\A t \in CursorThreads :
          (~control_active /\ loop_pc[t] # "none") => StoppedSteps(t)]_vars

\* Stop was pressed between the prediction and the action of a tick: the
\* thread still owes the one movement it had decided on
C23_Witness ==
    /\ ~control_active
    /\ start_enabled
    /\ loop_pc[1] = "act"
    /\ direction[1] \in {"LEFT", "RIGHT"}

-----------------------------------------------------------------------------
(* Properties of the locking (SpecLock)                                    *)

\* C22: every value a decision tick has read (threshold_predict,
\* model_predict or the effort update_loop) is the value its key had in
\* one and the same state of current_data, the one found when the tick
\* entered its `with data_lock:` block; no on_message update takes effect
\* while the block is open.
C22_TickReadsOneSlotState ==
    /\ [](\A i \in 1..Len(reader.got) :
             reader.got[i].value = reader.seen[reader.got[i].key])
    /\ [][data_lock = "reader" => current_data' = current_data]_vars

\* update_loop has read its seven keys and left the block, and an update
\* that arrived afterwards has changed the slot
C22_Witness ==
    /\ reader.fn = "update_loop"
    /\ Len(reader.got) = 7
    /\ data_lock = "free"
    /\ reader.seen["sig"] = 10
    /\ current_data["sig"] = 0

\* the step that leaves the with block of the calibration run
CalibRelease == data_lock = "calib" /\ data_lock' = "free"

\* C26: a calibration run holds data_lock only while it copies one sample:
\* whenever the run is between polls the lock is free, so on_message can
\* take it, and the copy stores the slot as it is at that moment, the
\* latest update included.
C26_CalibrationHoldsLockForOneCopy ==
    /\ [](data_lock = "calib" => calib_pc = "copy")
    /\ [](calib_pc # "copy" => data_lock = "free")
    /\ [][CalibRelease =>
             /\ temp_data' = Append(temp_data, current_data)
             /\ calib_pc' = "poll"]_vars
    /\ [][data_lock = "calib" => (CalibRelease /\ current_data' = current_data)
                                   \/ UNCHANGED <<data_lock, current_data>>]_vars

\* a run has copied two samples, and the second is an update that arrived
\* between the two polls
C26_Witness ==
    /\ calib_pc = "poll"
    /\ data_lock = "free"
    /\ Len(temp_data) = 2
    /\ temp_data[1] # temp_data[2]
    /\ temp_data[2] = current_data

-----------------------------------------------------------------------------
(* Properties of the baselines (SpecBaseline)                              *)

\* the step of a calibration run that stores one averaged channel: nothing
\* arrives, nothing is collected and no session starts or stops on it
AveragingStep ==
    /\ calib_pc = "average"
    /\ UNCHANGED <<sharedVars, trainVars>>

\* the SET BASELINE button: baseline_att takes the current avg_att, and no
\* sample is ingested and no tick runs on that step
SetBaselineStep ==
    /\ baseline_att' = avg_att
    /\ UNCHANGED <<sharedVars, avg_att, avg_med, ticks, last_tick>>

\* the CALIBRATE button starts a run: the connection is open and the run
\* begins polling with an empty sample list
CalibrateStep ==
    /\ ws_connected
    /\ calib_pc' = "poll"
    /\ temp_data' = <<>>
    /\ UNCHANGED <<sharedVars, baseline_data, trainVars>>

\* C25: baseline_data is modified only by a calibration run (its averaging
\* steps, reached only from calibrate_baseline) and baseline_att only by
\* set_baseline; sample ingestion, sample collection, training sessions
\* and control ticks leave both unchanged.
C25_BaselineChangesOnlyByCalibration ==
    /\ [][baseline_data' # baseline_data => AveragingStep]_vars
    /\ [][baseline_att' # baseline_att => SetBaselineStep]_vars
    /\ [][(calib_pc = "idle" /\ calib_pc' # "idle") => CalibrateStep]_vars

\* the operator has set the baseline and a later tick has moved avg_att
\* away from it
C25_Witness ==
    /\ baseline_att # FracOf(50)
    /\ baseline_att # avg_att
    /\ last_tick.polled

-----------------------------------------------------------------------------
(* Properties of main.py (SpecMain)                                        *)

\* the commands pyautogui carried out for the last reading
Fired(command) ==
    \E i \in 1..Len(call.result) : call.result[i] = command

\* C29: for every processed reading (pointer away from the corners) each
\* documented control fires whenever its condition holds: attention > 70
\* moves UP, meditation > 70 moves DOWN, attention < 30 moves LEFT,
\* meditation < 30 moves RIGHT and raw > 1500 clicks.
C29_EveryControlFires ==
    (call.fn = "process_brainwave_data" /\ ~call.corner) =>
        /\ call.attention > 70 => Fired(Move(0, -STEP))
        /\ call.meditation > 70 => Fired(Move(0, STEP))
        /\ call.attention < 30 => Fired(Move(-STEP, 0))
        /\ call.meditation < 30 => Fired(Move(STEP, 0))
        /\ call.raw > 1500 => Fired(Click)

-----------------------------------------------------------------------------
(* Properties of the control threads (SpecLoops)                           *)

\* the control_loop threads that have been started and have not exited
Running == {t \in DOMAIN loop_pc : loop_pc[t] # "none"}

\* C31: at most one control_loop thread is running at any time, whatever
\* the sequence of Start and Stop presses.
C31_AtMostOneControlLoop == Cardinality(Running) <= 1

-----------------------------------------------------------------------------
(* Properties of the mode switch (SpecMode)                                *)

\* the raw prediction a tick has just appended to the window
Appended == prediction_buffer'[Len(prediction_buffer')]

\* C34: model_predict returns IDLE whenever nothing is loaded or the
\* loaded object is not a dict, and whenever the scaler or the classifier
\* raises; a tick that runs in "ML Model" mode with nothing loaded, as
\* happens when the mode is switched while control is active, appends
\* IDLE.
C34_ModelPredictFallsBackToIdle ==
    /\ [](\A a \in ClassifierAnswers :
             (loaded_model.kind # "dict" \/ a.raises)
                 => model_predict(loaded_model, current_data, a) = "IDLE")
    /\ [][\A t \in CursorThreads :
             (PredictStep(t) /\ control_mode = "ML Model"
                             /\ loaded_model.kind # "dict")
                 => Appended = "IDLE"]_vars

\* control is active, the mode was switched to "ML Model" with nothing
\* loaded, and the tick that ran meanwhile appended IDLE after a direction
\* (threshold_predict answers every reading of this specification with a
\* direction)
C34_Witness ==
    /\ control_active
    /\ control_mode = "ML Model"
    /\ loaded_model.kind = "none"
    /\ loop_pc[1] = "act"
    /\ Len(prediction_buffer) >= 2
    /\ prediction_buffer[Len(prediction_buffer)] = "IDLE"
    /\ prediction_buffer[Len(prediction_buffer) - 1] # "IDLE"

-----------------------------------------------------------------------------
(* Properties of the training session (SpecPause)                          *)

\* C35: whenever no training session is running the pause flag is false,
\* so a newly started session is never paused from its first trial.
C35_NoPauseOutsideSession == ~is_training => ~is_paused

-----------------------------------------------------------------------------
(* Properties of the line framing (SpecFraming)                            *)

\* what main.py holds after the whole stream, had it come in one chunk
Unsplit == Receive(<<>>, <<>>, stream)

\* C36: however the stream is split into recv chunks, once all of it has
\* been received the readings handed to process_brainwave_data and the
\* partial line kept in the buffer are the same as for the unsplit stream.
C36_FramingIgnoresChunking ==
    received = Len(stream) =>
        /\ handed = Unsplit.handed
        /\ buffer = Unsplit.buffer

====
